---------------------------- MODULE RateLimiter ----------------------------
(* The in-memory token buckets of apps/api/neuroforge_api/auth.py: a table of   *)
(* at most MaxTracked buckets, refilled when they are looked at.  Time is       *)
(* counted in ticks of one unit; a token is Cost units, so a bucket of c tokens *)
(* refilled at r tokens a second has Capacity = c * Cost with Cost * r ticks to *)
(* the second, and is full Capacity ticks after it was last refilled.           *)
EXTENDS Integers, FiniteSets

CONSTANTS
  Keys,        \* what a bucket is kept for: stored keys, or client addresses
  Capacity,    \* units a full bucket holds
  Cost,        \* units in a token
  MaxTracked   \* MAX_TRACKED_KEYS

LimiterConstants ==
  /\ Capacity \in Nat \ {0}
  /\ Cost \in Nat \ {0}
  /\ MaxTracked \in Nat \ {0}

VARIABLES
  now,      \* time.monotonic()
  table,    \* _buckets, with the pairs of keys of which the first was inserted earlier
  answer    \* the latest call, its key and whether it found a token

vars == <<now, table, answer>>

Tracked == DOMAIN table.bucket

AtMost(n) == IF n < Capacity THEN n ELSE Capacity

Without(t, gone) ==
  [older  |-> {p \in t.older : p[1] \notin gone /\ p[2] \notin gone},
   bucket |-> [k \in DOMAIN t.bucket \ gone |-> t.bucket[k]]]

\* next(iter(_buckets)): the key that was inserted before all others.
Oldest(t) == CHOOSE k \in DOMAIN t.bucket : \A j \in DOMAIN t.bucket \ {k} : <<k, j>> \in t.older

\* Buckets last refilled long enough ago to be full whatever they held.
FullByNow(t) == {k \in DOMAIN t.bucket : now - t.bucket[k].last >= Capacity}

\* A full table first drops the full buckets and then, if it must, its oldest one.
MadeRoom(key) ==
  IF key \in Tracked \/ Cardinality(Tracked) < MaxTracked THEN table
  ELSE LET kept == Without(table, FullByNow(table))
       IN IF Cardinality(DOMAIN kept.bucket) < MaxTracked THEN kept
          ELSE Without(kept, {Oldest(kept)})

\* Faulty: what was refilled is not capped.
Uncapped(t, key) ==
  IF key \in DOMAIN t.bucket THEN t.bucket[key].tokens + (now - t.bucket[key].last) ELSE Capacity

\* The bucket of key at this moment, a new one being full.
Level(t, key) ==
  IF key \in DOMAIN t.bucket
  THEN AtMost(t.bucket[key].tokens + (now - t.bucket[key].last))
  ELSE Capacity

\* setdefault: a new key goes behind the others, a tracked one keeps its place.
Inserted(t, key) ==
  IF key \in DOMAIN t.bucket THEN t.older ELSE t.older \cup {<<k, key>> : k \in DOMAIN t.bucket}

\* Faulty: the time of the refill is kept only for a new bucket, so later refills count it again.
ChargedUnstamped(key, price) ==
  LET room == MadeRoom(key)
      since == IF key \in DOMAIN room.bucket THEN room.bucket[key].last ELSE now
      left == [tokens |-> Level(room, key) - price, last |-> since]
  IN [older  |-> Inserted(room, key),
      bucket |-> [k \in DOMAIN room.bucket \cup {key} |->
                    IF k = key THEN left ELSE room.bucket[k]]]

\* The table once key's bucket is refilled and `price` units are taken out of it.
Charged(key, price) ==
  LET room == MadeRoom(key)
      left == [tokens |-> Level(room, key) - price, last |-> now]
  IN [older  |-> Inserted(room, key),
      bucket |-> [k \in DOMAIN room.bucket \cup {key} |->
                    IF k = key THEN left ELSE room.bucket[k]]]

HasToken(key) == Level(MadeRoom(key), key) >= Cost

Init ==
  /\ now = 0
  /\ table = [older |-> {}, bucket |-> [k \in {} |-> 0]]
  /\ answer = [yes |-> TRUE]

\* Faulty: takes no token.
AllowFree(key) ==
  /\ table' = Charged(key, 0)
  /\ answer' = [call |-> "allow", key |-> key, yes |-> HasToken(key)]
  /\ UNCHANGED now

\* allow(): takes a token when there is one.
Allow(key) ==
  /\ table' = Charged(key, IF HasToken(key) THEN Cost ELSE 0)
  /\ answer' = [call |-> "allow", key |-> key, yes |-> HasToken(key)]
  /\ UNCHANGED now

\* not blocked(): whether there is a token, taking none.
Look(key) ==
  /\ table' = Charged(key, 0)
  /\ answer' = [call |-> "look", key |-> key, yes |-> HasToken(key)]
  /\ UNCHANGED now

Tick == now' = now + 1 /\ UNCHANGED <<table, answer>>

Next == Tick \/ \E k \in Keys : Allow(k) \/ Look(k)

Spec == Init /\ [][Next]_vars

\* One key of a table is the oldest, one the next, and so on.
Ordered(t) ==
  LET keys == DOMAIN t.bucket
  IN  /\ t.older \subseteq keys \X keys
      /\ \A j, k \in keys : <<j, k>> \in t.older <=> j # k /\ <<k, j>> \notin t.older
      /\ \A i, j, k \in keys : <<i, j>> \in t.older /\ <<j, k>> \in t.older => <<i, k>> \in t.older

\* The table stays within its limit, its buckets within their capacity, and its keys in their order.
TableOK ==
  /\ Tracked \subseteq Keys
  /\ Cardinality(Tracked) <= MaxTracked
  /\ \A k \in Tracked : table.bucket[k].tokens \in 0..Capacity /\ table.bucket[k].last \in 0..now
  /\ Ordered(table)

Buckets == INSTANCE TokenBuckets WITH
  level <- [k \in Keys |-> Level(table, k)],
  quiet <- [k \in Keys |-> IF k \in Tracked THEN AtMost(now - table.bucket[k].last) ELSE Capacity]
=============================================================================
