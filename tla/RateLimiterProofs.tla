------------------------- MODULE RateLimiterProofs -------------------------
(* The lazily refilled, bounded table of buckets implements TokenBuckets,   *)
(* for any set of keys, capacity, price of a request and table size.        *)
EXTENDS RateLimiter, FiniteSetTheorems, WellFoundedInduction, TLAPS

\* TableOK holds of a finite table, at a time that has come.
TableInv == now \in Nat /\ IsFiniteSet(Tracked) /\ TableOK

\* How long ago a key was asked about, up to the time a bucket takes to fill.
Quiet(k) == IF k \in Tracked THEN AtMost(now - table.bucket[k].last) ELSE Capacity

-----------------------------------------------------------------------------
\* A bucket's level lies between empty and full.
LEMMA LevelType ==
  ASSUME LimiterConstants, TableInv, NEW k
  PROVE  Level(table, k) \in 0..Capacity
BY DEF LimiterConstants, TableInv, TableOK, Level, AtMost, Tracked

\* Dropping keys leaves the other buckets as they were.
LEMMA WithoutBucket ==
  ASSUME NEW t, NEW gone
  PROVE  /\ DOMAIN Without(t, gone).bucket = DOMAIN t.bucket \ gone
         /\ \A k \in DOMAIN t.bucket \ gone : Without(t, gone).bucket[k] = t.bucket[k]
BY DEF Without

\* Making room for a key never drops that key, and leaves the other buckets as they were.
LEMMA RoomKeepsBuckets ==
  ASSUME NEW key
  PROVE  /\ DOMAIN MadeRoom(key).bucket \subseteq Tracked
         /\ key \in Tracked => key \in DOMAIN MadeRoom(key).bucket
         /\ \A k \in DOMAIN MadeRoom(key).bucket : MadeRoom(key).bucket[k] = table.bucket[k]
PROOF
<1> DEFINE kept == Without(table, FullByNow(table))
           fewer == Without(kept, {Oldest(kept)})
<1>1. /\ DOMAIN kept.bucket \subseteq Tracked
      /\ \A k \in DOMAIN kept.bucket : kept.bucket[k] = table.bucket[k]
  BY WithoutBucket DEF Tracked
<1>2. /\ DOMAIN fewer.bucket \subseteq DOMAIN kept.bucket
      /\ \A k \in DOMAIN fewer.bucket : fewer.bucket[k] = kept.bucket[k]
  <2> HIDE DEF kept
  <2> QED BY WithoutBucket
<1>3. MadeRoom(key) \in {table, kept, fewer} /\ (key \in Tracked => MadeRoom(key) = table)
  BY DEF MadeRoom
<1> HIDE DEF kept, fewer
<1> QED BY <1>1, <1>2, <1>3 DEF Tracked

\* So the level of the key that is asked about does not depend on the room made for it.
LEMMA RoomKeepsLevel ==
  ASSUME NEW key
  PROVE  Level(MadeRoom(key), key) = Level(table, key)
BY RoomKeepsBuckets DEF Level, Tracked

\* What charging a key does to the table.
LEMMA ChargedTable ==
  ASSUME NEW key, NEW price
  PROVE  /\ DOMAIN Charged(key, price).bucket = DOMAIN MadeRoom(key).bucket \cup {key}
         /\ Charged(key, price).bucket[key] = [tokens |-> Level(table, key) - price, last |-> now]
         /\ \A k \in DOMAIN MadeRoom(key).bucket \ {key} :
              Charged(key, price).bucket[k] = table.bucket[k]
BY RoomKeepsLevel, RoomKeepsBuckets DEF Charged

\* The buckets that are lost: none that matters, or one other when the table is crowded.
LEMMA RoomForgetsLittle ==
  ASSUME LimiterConstants, TableInv, NEW key
  PROVE  \E lost \in SUBSET Tracked :
           /\ DOMAIN MadeRoom(key).bucket = Tracked \ lost
           /\ \/ lost \subseteq FullByNow(table)
              \/ \E k \in Tracked \ {key} :
                   /\ lost = FullByNow(table) \cup {k}
                   /\ Cardinality(Tracked \ FullByNow(table)) >= MaxTracked
PROOF
<1> DEFINE kept == Without(table, FullByNow(table))
           oldest == Oldest(kept)
           fewer == Without(kept, {oldest})
<1>1. FullByNow(table) \subseteq Tracked
  BY DEF FullByNow, Tracked
<1>2. DOMAIN kept.bucket = Tracked \ FullByNow(table)
  BY WithoutBucket DEF Tracked
<1>3. DOMAIN fewer.bucket = DOMAIN kept.bucket \ {oldest}
  <2> HIDE DEF kept
  <2> QED BY WithoutBucket
<1> HIDE DEF kept, fewer, oldest
<1>4. CASE MadeRoom(key) = table
  <2>1. DOMAIN MadeRoom(key).bucket = Tracked \ {}
    BY <1>4 DEF Tracked
  <2> WITNESS {} \in SUBSET Tracked
  <2> QED BY <2>1
<1>5. CASE MadeRoom(key) = kept
  BY <1>1, <1>2, <1>5
<1>6. CASE /\ MadeRoom(key) = fewer /\ key \notin Tracked
           /\ ~ (Cardinality(DOMAIN kept.bucket) < MaxTracked)
  <2>1. CASE oldest \in Tracked \ FullByNow(table)
    <3>1. Cardinality(Tracked \ FullByNow(table)) \in Nat
      BY FS_Subset, FS_CardinalityType DEF TableInv
    <3>2. Cardinality(Tracked \ FullByNow(table)) >= MaxTracked
      BY <1>2, <1>6, <3>1 DEF LimiterConstants
    <3> QED BY <1>1, <1>2, <1>3, <1>6, <2>1, <3>2
  <2>2. CASE oldest \notin Tracked \ FullByNow(table)
    BY <1>1, <1>2, <1>3, <1>6, <2>2
  <2> QED BY <2>1, <2>2
<1> QED BY <1>4, <1>5, <1>6 DEF MadeRoom, kept, fewer, oldest

-----------------------------------------------------------------------------
\* A table that is not empty has an oldest key: one with the fewest keys before it.
LEMMA OldestIsTracked ==
  ASSUME NEW t, Ordered(t), IsFiniteSet(DOMAIN t.bucket), DOMAIN t.bucket # {}
  PROVE  Oldest(t) \in DOMAIN t.bucket
PROOF
<1> DEFINE D == DOMAIN t.bucket
           Before(k) == {j \in D : <<j, k>> \in t.older}
           R == {ss \in Nat \X Nat : ss[1] < ss[2]}
           Counts == {Cardinality(Before(k)) : k \in D}
<1>1. \A k \in D : IsFiniteSet(Before(k)) /\ Cardinality(Before(k)) \in Nat
  BY FS_Subset, FS_CardinalityType
<1>2. IsWellFoundedOn(R, Nat)
  BY NatLessThanWellFounded DEF OpToRel
<1>3. Counts \subseteq Nat /\ Counts # {}
  BY <1>1
<1>4. PICK m \in Counts : \A n \in Counts : ~ (<<n, m>> \in R)
  <2> HIDE DEF R, Counts
  <2> QED BY <1>2, <1>3, WFMin
<1>5. PICK k \in D : m = Cardinality(Before(k))
  BY <1>4
<1>6. ASSUME NEW j \in D \ {k}
      PROVE  <<k, j>> \in t.older
  <2> SUFFICES ASSUME <<j, k>> \in t.older PROVE FALSE
    BY DEF Ordered
  <2>1. Before(j) \subseteq Before(k) /\ j \in Before(k) /\ j \notin Before(j)
    BY DEF Ordered
  <2>2. Cardinality(Before(j)) <= Cardinality(Before(k)) /\ Cardinality(Before(j)) # Cardinality(Before(k))
    <3> HIDE DEF Before
    <3> QED BY <1>1, <2>1, FS_Subset
  <2>3. Cardinality(Before(j)) < Cardinality(Before(k))
    <3>1. Cardinality(Before(j)) \in Nat /\ Cardinality(Before(k)) \in Nat
      BY <1>1
    <3> HIDE DEF Before
    <3> QED BY <2>2, <3>1
  <2>4. <<Cardinality(Before(j)), m>> \in R
    <3> HIDE DEF Before
    <3> QED BY <1>1, <1>5, <2>3
  <2>5. Cardinality(Before(j)) \in Counts
    OBVIOUS
  <2> QED BY <1>4, <2>4, <2>5
<1> QED BY <1>6 DEF Oldest

\* Dropping keys keeps the order of the others.
LEMMA WithoutOrdered ==
  ASSUME NEW t, Ordered(t), NEW gone
  PROVE  Ordered(Without(t, gone))
PROOF
<1> DEFINE left == Without(t, gone)
<1>1. DOMAIN left.bucket = DOMAIN t.bucket \ gone
  BY WithoutBucket
<1>2. left.older = {p \in t.older : p[1] \notin gone /\ p[2] \notin gone}
  BY DEF Without
<1> HIDE DEF left
<1>3. \A j, k \in DOMAIN left.bucket : <<j, k>> \in left.older <=> <<j, k>> \in t.older
  BY <1>1, <1>2
<1>4. left.older \subseteq (DOMAIN left.bucket) \X (DOMAIN left.bucket)
  <2> SUFFICES ASSUME NEW p \in left.older PROVE p \in (DOMAIN left.bucket) \X (DOMAIN left.bucket)
    OBVIOUS
  <2>1. p \in t.older /\ p[1] \notin gone /\ p[2] \notin gone
    BY <1>2
  <2>2. PICK j, k \in DOMAIN t.bucket : p = <<j, k>>
    BY <2>1 DEF Ordered
  <2> QED BY <1>1, <2>1, <2>2
<1> QED BY <1>1, <1>3, <1>4 DEF Ordered, left

\* What is left to put a key into is in order, and has room for a new one.
LEMMA RoomIsMade ==
  ASSUME LimiterConstants, TableInv, NEW key
  PROVE  /\ Ordered(MadeRoom(key)) /\ IsFiniteSet(DOMAIN MadeRoom(key).bucket)
         /\ Cardinality(DOMAIN MadeRoom(key).bucket) <= MaxTracked
         /\ key \notin Tracked => Cardinality(DOMAIN MadeRoom(key).bucket) < MaxTracked
PROOF
<1> DEFINE kept == Without(table, FullByNow(table))
           fewer == Without(kept, {Oldest(kept)})
<1>1. Ordered(table) /\ Ordered(kept)
  <2>1. Ordered(table)
    BY DEF TableInv, TableOK
  <2> QED BY <2>1, WithoutOrdered
<1>2. /\ DOMAIN kept.bucket \subseteq Tracked /\ IsFiniteSet(DOMAIN kept.bucket)
      /\ Cardinality(DOMAIN kept.bucket) <= Cardinality(Tracked)
      /\ Cardinality(DOMAIN kept.bucket) \in Nat /\ Cardinality(Tracked) \in Nat
  <2>1. DOMAIN kept.bucket \subseteq Tracked
    BY WithoutBucket DEF Tracked
  <2> HIDE DEF kept
  <2> QED BY <2>1, FS_Subset, FS_CardinalityType DEF TableInv
<1>3. MaxTracked \in Nat /\ Cardinality(Tracked) <= MaxTracked
  BY DEF LimiterConstants, TableInv, TableOK
<1>4. CASE MadeRoom(key) = table /\ (key \in Tracked \/ Cardinality(Tracked) < MaxTracked)
  BY <1>1, <1>3, <1>4 DEF TableInv, Tracked
<1>5. CASE MadeRoom(key) = kept /\ Cardinality(DOMAIN kept.bucket) < MaxTracked
  <2> HIDE DEF kept
  <2> QED BY <1>1, <1>2, <1>3, <1>5
<1>6. CASE MadeRoom(key) = fewer /\ ~ (Cardinality(DOMAIN kept.bucket) < MaxTracked)
  <2>1. DOMAIN fewer.bucket = DOMAIN kept.bucket \ {Oldest(kept)} /\ Ordered(fewer)
    <3> HIDE DEF kept
    <3> QED BY <1>1, WithoutBucket, WithoutOrdered
  <2> HIDE DEF kept, fewer
  <2>2. DOMAIN kept.bucket # {}
    BY <1>6, FS_EmptySet DEF LimiterConstants
  <2>3. Oldest(kept) \in DOMAIN kept.bucket
    BY <1>1, <1>2, <2>2, OldestIsTracked
  <2>4. /\ IsFiniteSet(DOMAIN fewer.bucket)
        /\ Cardinality(DOMAIN fewer.bucket) = Cardinality(DOMAIN kept.bucket) - 1
    BY <1>2, <2>1, <2>3, FS_RemoveElement
  <2> QED BY <1>2, <1>3, <1>6, <2>1, <2>4
<1> QED BY <1>4, <1>5, <1>6 DEF MadeRoom

\* Charging a key leaves the table in order and within its limit.
LEMMA ChargedOrdered ==
  ASSUME LimiterConstants, TableInv, NEW key, NEW price
  PROVE  /\ Ordered(Charged(key, price)) /\ IsFiniteSet(DOMAIN Charged(key, price).bucket)
         /\ Cardinality(DOMAIN Charged(key, price).bucket) <= MaxTracked
PROOF
<1> DEFINE room == MadeRoom(key)
           t == Charged(key, price)
<1>1. /\ Ordered(room) /\ IsFiniteSet(DOMAIN room.bucket)
      /\ Cardinality(DOMAIN room.bucket) <= MaxTracked
      /\ key \notin Tracked => Cardinality(DOMAIN room.bucket) < MaxTracked
  BY RoomIsMade
<1>2. key \in Tracked => key \in DOMAIN room.bucket
  BY RoomKeepsBuckets
<1>3. DOMAIN t.bucket = DOMAIN room.bucket \cup {key}
  BY ChargedTable
<1>4. t.older = Inserted(room, key)
  BY DEF Charged
<1> HIDE DEF room, t
<1>5. Ordered(t)
  <2>1. CASE key \in DOMAIN room.bucket
    <3>1. DOMAIN t.bucket = DOMAIN room.bucket /\ t.older = room.older
      BY <1>3, <1>4, <2>1 DEF Inserted
    <3> QED BY <1>1, <3>1 DEF Ordered
  <2>2. CASE key \notin DOMAIN room.bucket
    <3>1. t.older = room.older \cup {<<k, key>> : k \in DOMAIN room.bucket}
      BY <1>4, <2>2 DEF Inserted
    <3>0. \A p \in room.older : p \in (DOMAIN room.bucket) \X (DOMAIN room.bucket)
      BY <1>1 DEF Ordered
    <3>2. t.older \subseteq (DOMAIN t.bucket) \X (DOMAIN t.bucket)
      BY <1>3, <3>0, <3>1
    <3>3. \A j, k \in DOMAIN t.bucket :
            <<j, k>> \in t.older <=> \/ k = key /\ j # key
                                     \/ k # key /\ j # key /\ <<j, k>> \in room.older
      <4> TAKE j, k \in DOMAIN t.bucket
      <4>1. <<j, k>> \in {<<i, key>> : i \in DOMAIN room.bucket} <=> k = key /\ j # key
        BY <1>3, <2>2
      <4>2. <<j, k>> \in room.older => j # key /\ k # key
        BY <2>2, <3>0
      <4> QED BY <3>1, <4>1, <4>2
    <3>4. \A j, k \in DOMAIN t.bucket : <<j, k>> \in t.older <=> j # k /\ <<k, j>> \notin t.older
      BY <1>1, <1>3, <3>3 DEF Ordered
    <3>5. \A i, j, k \in DOMAIN t.bucket :
            <<i, j>> \in t.older /\ <<j, k>> \in t.older => <<i, k>> \in t.older
      BY <1>1, <1>3, <3>3 DEF Ordered
    <3> QED BY <3>2, <3>4, <3>5 DEF Ordered
  <2> QED BY <2>1, <2>2
<1>6. IsFiniteSet(DOMAIN t.bucket) /\ Cardinality(DOMAIN t.bucket) <= MaxTracked
  <2>1. Cardinality(DOMAIN room.bucket) \in Nat /\ MaxTracked \in Nat
    BY <1>1, FS_CardinalityType DEF LimiterConstants
  <2> QED BY <1>1, <1>2, <1>3, <2>1, FS_AddElement
<1> QED BY <1>5, <1>6 DEF t

-----------------------------------------------------------------------------
\* An empty table is well formed.
LEMMA InitInv ==
  ASSUME LimiterConstants, Init
  PROVE  TableInv
BY FS_EmptySet DEF Init, TableInv, TableOK, Ordered, Tracked, LimiterConstants

\* Charging at most what a bucket holds leaves a well formed table.
LEMMA ChargeInv ==
  ASSUME LimiterConstants, TableInv, NEW key \in Keys, NEW price \in Nat,
         price <= Level(table, key), table' = Charged(key, price), UNCHANGED now
  PROVE  TableInv'
PROOF
<1>1. Tracked' = DOMAIN MadeRoom(key).bucket \cup {key}
  BY ChargedTable DEF Tracked
<1>2. Tracked' \subseteq Keys /\ IsFiniteSet(Tracked')
  <2>1. IsFiniteSet(DOMAIN MadeRoom(key).bucket)
    BY RoomKeepsBuckets, FS_Subset DEF TableInv
  <2> QED BY <1>1, <2>1, RoomKeepsBuckets, FS_AddElement DEF TableInv, TableOK
<1>3. table'.bucket[key].tokens \in 0..Capacity /\ table'.bucket[key].last \in 0..now
  <2>1. Level(table, key) \in 0..Capacity
    BY LevelType
  <2>2. table'.bucket[key] = [tokens |-> Level(table, key) - price, last |-> now]
    BY ONLY table' = Charged(key, price), ChargedTable
  <2>3. Level(table, key) - price \in 0..Capacity /\ now \in 0..now
    BY <2>1 DEF TableInv, LimiterConstants
  <2> QED BY <2>2, <2>3
<1> DEFINE others == DOMAIN MadeRoom(key).bucket \ {key}
<1>4. \A k \in others : Charged(key, price).bucket[k] = table.bucket[k]
  BY ONLY ChargedTable
<1>5. ASSUME NEW k \in Tracked', k # key
      PROVE  table'.bucket[k].tokens \in 0..Capacity /\ table'.bucket[k].last \in 0..now
  <2>1. k \in DOMAIN MadeRoom(key).bucket /\ k \in Tracked
    BY <1>1, <1>5, RoomKeepsBuckets
  <2>2. Charged(key, price).bucket[k] = table.bucket[k]
    BY <1>4, <1>5, <2>1
  <2>3. table'.bucket[k] = table.bucket[k]
    BY <2>2
  <2> QED BY <2>1, <2>3 DEF TableInv, TableOK
<1>6. Ordered(table') /\ Cardinality(Tracked') <= MaxTracked
  <2>1. Ordered(Charged(key, price)) /\ Cardinality(DOMAIN Charged(key, price).bucket) <= MaxTracked
    BY ChargedOrdered
  <2> QED BY <2>1 DEF Tracked
<1> QED BY <1>2, <1>3, <1>5, <1>6 DEF TableInv, TableOK

\* allow() and blocked() charge what there is, or nothing.
LEMMA NextInv ==
  ASSUME LimiterConstants, TableInv, [Next]_vars
  PROVE  TableInv'
PROOF
<1>1. CASE Tick
  BY <1>1 DEF Tick, TableInv, TableOK, Tracked
<1>2. ASSUME NEW k \in Keys, Allow(k)
      PROVE  TableInv'
  <2>1. HasToken(k) => Cost <= Level(table, k)
    BY LevelType, RoomKeepsLevel DEF HasToken, LimiterConstants
  <2>2. 0 <= Level(table, k)
    BY LevelType DEF LimiterConstants
  <2> DEFINE price == IF HasToken(k) THEN Cost ELSE 0
  <2>3. price \in Nat /\ price <= Level(table, k) /\ table' = Charged(k, price)
    BY <1>2, <2>1, <2>2 DEF Allow, LimiterConstants
  <2> HIDE DEF price
  <2> QED BY <1>2, <2>3, ChargeInv DEF Allow
<1>3. ASSUME NEW k \in Keys, Look(k)
      PROVE  TableInv'
  <2>1. 0 <= Level(table, k)
    BY LevelType DEF LimiterConstants
  <2> QED BY <1>3, <2>1, ChargeInv DEF Look
<1>4. CASE UNCHANGED vars
  BY <1>4 DEF vars, TableInv, TableOK, Tracked
<1> QED BY <1>1, <1>2, <1>3, <1>4 DEF Next

(* Every bucket in the table is a bucket: it never holds more than its       *)
(* capacity or less than nothing, whatever calls and evictions went before.  *)
THEOREM TableCorrect ==
  ASSUME LimiterConstants
  PROVE  Spec => []TableInv
PROOF
<1>1. Init => TableInv
  BY InitInv
<1>2. TableInv /\ [Next]_vars => TableInv'
  BY NextInv
<1> QED BY <1>1, <1>2, PTL DEF Spec

-----------------------------------------------------------------------------
\* A bucket that was last refilled long enough ago is full, and one that was not is not quiet.
LEMMA FullOrBusy ==
  ASSUME LimiterConstants, TableInv, NEW k \in Tracked
  PROVE  /\ k \in FullByNow(table) => Level(table, k) = Capacity /\ Quiet(k) = Capacity
         /\ k \notin FullByNow(table) => Quiet(k) < Capacity
BY DEF LimiterConstants, TableInv, TableOK, FullByNow, Level, Quiet, AtMost, Tracked

\* The keys asked about within the time a bucket takes to fill are those whose buckets cannot be
\* told from new ones.
LEMMA BusyKeys ==
  ASSUME LimiterConstants, TableInv
  PROVE  {k \in Keys : Quiet(k) < Capacity} = Tracked \ FullByNow(table)
PROOF
<1>1. \A k \in Keys : k \notin Tracked => ~ (Quiet(k) < Capacity)
  BY DEF Quiet, LimiterConstants
<1>2. \A k \in Tracked : k \in FullByNow(table) => ~ (Quiet(k) < Capacity)
  BY FullOrBusy DEF LimiterConstants
<1>3. \A k \in Tracked : k \notin FullByNow(table) => Quiet(k) < Capacity
  BY FullOrBusy
<1> QED BY <1>1, <1>2, <1>3 DEF TableInv, TableOK

\* TokenBuckets counts with the same Cardinality.
LEMMA SameCardinality ==
  ASSUME NEW S
  PROVE  Buckets!Cardinality(S) = Cardinality(S)
BY DEF Cardinality, Buckets!Cardinality

\* The key a question is about pays, and has just been asked about.
LEMMA AskedKey ==
  ASSUME LimiterConstants, TableInv, NEW key \in Keys, NEW price \in Nat,
         price <= Level(table, key), table' = Charged(key, price), UNCHANGED now
  PROVE  Level(table, key)' = Level(table, key) - price /\ Quiet(key)' = 0
PROOF
<1>1. key \in DOMAIN table'.bucket /\ table'.bucket[key] = [tokens |-> Level(table, key) - price, last |-> now]
  BY ONLY table' = Charged(key, price), ChargedTable
<1>2. Level(table, key) \in 0..Capacity
  BY LevelType
<1> DEFINE left == Level(table, key) - price
<1>3. left \in 0..Capacity /\ now - now = 0 /\ left + 0 = left /\ now \in Nat /\ now' = now
  BY <1>2 DEF LimiterConstants, TableInv
<1>4. AtMost(left) = left /\ AtMost(0) = 0
  BY <1>3 DEF AtMost, LimiterConstants
<1> HIDE DEF left
<1>5. Level(table, key)' = AtMost(left + (now - now)) /\ Quiet(key)' = AtMost(now - now)
  BY <1>1, <1>3 DEF Level, Quiet, Tracked, AtMost, left
<1> QED BY <1>3, <1>4, <1>5 DEF left

\* The other keys keep their buckets, except for those that are lost.
LEMMA OtherKey ==
  ASSUME LimiterConstants, TableInv, NEW key \in Keys, NEW price \in Nat,
         table' = Charged(key, price), UNCHANGED now, NEW k \in Keys, k # key
  PROVE  /\ k \in DOMAIN MadeRoom(key).bucket \/ k \notin Tracked
              => Level(table, k)' = Level(table, k) /\ Quiet(k)' = Quiet(k)
         /\ k \notin DOMAIN MadeRoom(key).bucket
              => Level(table, k)' = Capacity /\ Quiet(k)' = Capacity
PROOF
<1> DEFINE room == DOMAIN MadeRoom(key).bucket
<1>1. DOMAIN table'.bucket = room \cup {key} /\ \A i \in room \ {key} : table'.bucket[i] = table.bucket[i]
  <2>1. /\ DOMAIN Charged(key, price).bucket = DOMAIN MadeRoom(key).bucket \cup {key}
        /\ \A i \in DOMAIN MadeRoom(key).bucket \ {key} : Charged(key, price).bucket[i] = table.bucket[i]
    BY ONLY ChargedTable
  <2> QED BY ONLY <2>1, table' = Charged(key, price)
<1>2. room \subseteq Tracked
  BY RoomKeepsBuckets
<1> HIDE DEF room
<1>3. CASE k \in room
  <2>1. k \in Tracked /\ k \in Tracked' /\ table'.bucket[k] = table.bucket[k] /\ now' = now
    BY <1>1, <1>2, <1>3 DEF Tracked
  <2> QED BY <1>3, <2>1 DEF Level, Quiet, AtMost, Tracked, room
<1>4. CASE k \notin room
  <2>1. k \notin Tracked'
    BY <1>1, <1>4 DEF Tracked
  <2> QED BY <1>4, <2>1 DEF Level, Quiet, Tracked, room
<1> QED BY <1>3, <1>4

\* What a question takes out is taken out in TokenBuckets, and what it drops may be forgotten there.
LEMMA AskRefines ==
  ASSUME LimiterConstants, TableInv, NEW key \in Keys, NEW paid \in Nat, paid <= Level(table, key),
         table' = Charged(key, paid), UNCHANGED now
  PROVE  Buckets!Asked(key, paid)
PROOF
<1>1. Level(table, key)' = Level(table, key) - paid /\ Quiet(key)' = 0
  BY AskedKey
<1>2. \A k \in Keys \ {key} :
        /\ k \in DOMAIN MadeRoom(key).bucket \/ k \notin Tracked
              => Level(table, k)' = Level(table, k) /\ Quiet(k)' = Quiet(k)
        /\ k \notin DOMAIN MadeRoom(key).bucket
              => Level(table, k)' = Capacity /\ Quiet(k)' = Capacity
  BY OtherKey
<1>3. PICK lost \in SUBSET Tracked :
        /\ DOMAIN MadeRoom(key).bucket = Tracked \ lost
        /\ \/ lost \subseteq FullByNow(table)
           \/ \E k \in Tracked \ {key} :
                /\ lost = FullByNow(table) \cup {k}
                /\ Cardinality(Tracked \ FullByNow(table)) >= MaxTracked
  BY RoomForgetsLittle
<1>4. \A k \in Keys \ {key} : k \notin lost \/ k \in FullByNow(table)
        => Level(table, k)' = Level(table, k) /\ Quiet(k)' = Quiet(k)
  <2> TAKE k \in Keys \ {key}
  <2>1. CASE k \notin lost
    BY <1>2, <1>3, <2>1
  <2>2. CASE k \in lost /\ k \in FullByNow(table)
    <3>1. k \in Tracked /\ k \notin DOMAIN MadeRoom(key).bucket
      BY <1>3, <2>2
    <3> QED BY <1>2, <2>2, <3>1, FullOrBusy
  <2> QED BY <2>1, <2>2
<1>5. ASSUME NEW forgotten \in Buckets!MayForget(key),
             \A k \in forgotten : k \in Keys \ {key} /\ Level(table, k)' = Capacity /\ Quiet(k)' = Capacity,
             \A k \in Keys \ {key} : k \notin forgotten
               => Level(table, k)' = Level(table, k) /\ Quiet(k)' = Quiet(k)
      PROVE  Buckets!Asked(key, paid)
  <2>1. [k \in Keys |-> Level(table, k)]'
          = [k \in Keys |-> IF k \in forgotten THEN Capacity
                            ELSE IF k = key THEN Level(table, k) - paid
                            ELSE Level(table, k)]
    BY <1>1, <1>5
  <2>2. [k \in Keys |-> Quiet(k)]'
          = [k \in Keys |-> IF k \in forgotten THEN Capacity
                            ELSE IF k = key THEN 0 ELSE Quiet(k)]
    BY <1>1, <1>5
  <2> QED BY <1>5, <2>1, <2>2 DEF Buckets!Asked, Quiet
<1>6. CASE lost \subseteq FullByNow(table)
  <2>1. {} \in Buckets!MayForget(key)
    BY DEF Buckets!MayForget
  <2> QED BY <1>4, <1>5, <1>6, <2>1
<1>7. ASSUME NEW j \in Tracked \ {key}, lost = FullByNow(table) \cup {j},
             Cardinality(Tracked \ FullByNow(table)) >= MaxTracked
      PROVE  Buckets!Asked(key, paid)
  <2>1. Buckets!Crowded
    BY <1>7, BusyKeys, SameCardinality DEF Buckets!Crowded, Quiet
  <2>2. j \in Keys \ {key}
    BY <1>7 DEF TableInv, TableOK
  <2>3. {j} \in Buckets!MayForget(key)
    BY <2>1, <2>2 DEF Buckets!MayForget
  <2>4. Level(table, j)' = Capacity /\ Quiet(j)' = Capacity
    BY <1>2, <1>3, <1>7, <2>2
  <2>5. \A k \in Keys \ {key} : k \notin {j} => Level(table, k)' = Level(table, k) /\ Quiet(k)' = Quiet(k)
    BY <1>4, <1>7
  <2> QED BY <1>5, <2>2, <2>3, <2>4, <2>5
<1> QED BY <1>3, <1>6, <1>7

\* There is a token in the table when there is one in the bucket, and then it can be taken.
LEMMA TokenInBucket ==
  ASSUME LimiterConstants, TableInv, NEW key \in Keys
  PROVE  /\ HasToken(key) <=> Level(table, key) >= Cost
         /\ HasToken(key) <=> Buckets!HasToken(key)
         /\ 0 <= Level(table, key) /\ (HasToken(key) => Cost <= Level(table, key))
<1>1. HasToken(key) <=> Level(table, key) >= Cost
  BY RoomKeepsLevel DEF HasToken
<1> QED BY <1>1, LevelType DEF Buckets!HasToken, LimiterConstants

\* An allowed request pays in TokenBuckets too.
LEMMA AllowRefines ==
  ASSUME LimiterConstants, TableInv, NEW key \in Keys, Allow(key)
  PROVE  Buckets!Allow(key)
<1>1. PICK paid : paid = IF HasToken(key) THEN Cost ELSE 0
  OBVIOUS
<1>2. paid \in Nat /\ paid <= Level(table, key)
  BY <1>1, TokenInBucket DEF LimiterConstants
<1>3. table' = Charged(key, paid) /\ now' = now
  BY <1>1 DEF Allow
<1>4. Buckets!Asked(key, paid)
  BY <1>2, <1>3, AskRefines
<1>5. Buckets!HasToken(key) = HasToken(key)
  BY TokenInBucket DEF HasToken, Buckets!HasToken
<1>6. paid = IF Buckets!HasToken(key) THEN Cost ELSE 0
  BY <1>1, <1>5
<1>7. answer' = [call |-> "allow", key |-> key, yes |-> Buckets!HasToken(key)]
  BY <1>5 DEF Allow
<1>8. Buckets!Asked(key, IF Buckets!HasToken(key) THEN Cost ELSE 0)
  BY <1>4, <1>6 DEF Buckets!Asked
<1> QED BY <1>7, <1>8 DEF Buckets!Allow

\* And a look takes nothing.
LEMMA LookRefines ==
  ASSUME LimiterConstants, TableInv, NEW key \in Keys, Look(key)
  PROVE  Buckets!Look(key)
<1>1. Buckets!Asked(key, 0)
  BY TokenInBucket, AskRefines DEF Look
<1>2. Buckets!HasToken(key) = HasToken(key)
  BY TokenInBucket DEF HasToken, Buckets!HasToken
<1> QED BY <1>1, <1>2 DEF Look, Buckets!Look

\* A tick fills every bucket by one unit, tracked or not.
LEMMA TickRefines ==
  ASSUME LimiterConstants, TableInv, Tick
  PROVE  Buckets!Tick
PROOF
<1>1. ASSUME NEW k \in Keys
      PROVE  Level(table, k)' = AtMost(Level(table, k) + 1) /\ Quiet(k)' = AtMost(Quiet(k) + 1)
  BY DEF Tick, TableInv, TableOK, LimiterConstants, Level, Quiet, AtMost, Tracked
<1> QED BY <1>1 DEF Buckets!Tick, Buckets!AtMost, AtMost, Tick, Quiet

\* A bucket that is not full by now stays in the table.
Kept(k) == k \in Tracked \ FullByNow(table) => k \in Tracked'

\* A question changes no bucket but its key's, as long as a full table drops full buckets only.
LEMMA KeptAsk ==
  ASSUME LimiterConstants, TableInv, NEW key \in Keys, NEW paid \in Nat, paid <= Level(table, key),
         table' = Charged(key, paid), UNCHANGED now, NEW k \in Keys, Kept(k)
  PROVE  Level(table, k)' = Level(table, k) - (IF k = key THEN paid ELSE 0)
<1>1. CASE k = key
  BY <1>1, AskedKey
<1>2. CASE k # key
  <2>1. Tracked' = DOMAIN MadeRoom(key).bucket \cup {key}
    <3>1. DOMAIN Charged(key, paid).bucket = DOMAIN MadeRoom(key).bucket \cup {key}
      BY ONLY ChargedTable
    <3> QED BY ONLY <3>1, table' = Charged(key, paid) DEF Tracked
  <2>2. /\ k \in DOMAIN MadeRoom(key).bucket \/ k \notin Tracked
              => Level(table, k)' = Level(table, k) /\ Quiet(k)' = Quiet(k)
        /\ k \notin DOMAIN MadeRoom(key).bucket
              => Level(table, k)' = Capacity /\ Quiet(k)' = Capacity
    BY <1>2, OtherKey
  <2>3. Level(table, k)' = Level(table, k)
    <3>1. CASE k \in DOMAIN MadeRoom(key).bucket \/ k \notin Tracked
      BY <2>2, <3>1
    <3>2. CASE k \in Tracked /\ k \notin DOMAIN MadeRoom(key).bucket
      <4>1. k \in FullByNow(table)
        BY <1>2, <2>1, <3>2 DEF Kept
      <4> QED BY <2>2, <3>2, <4>1, FullOrBusy
    <3> QED BY <3>1, <3>2
  <2>4. Level(table, k) \in 0..Capacity
    BY LevelType
  <2> QED BY <1>2, <2>3, <2>4 DEF LimiterConstants
<1> QED BY <1>1, <1>2

\* So what a step does to the level of a key is all in the questions about that key, and in time.
LEMMA KeptSteps ==
  ASSUME LimiterConstants, TableInv, NEW k \in Keys
  PROVE  /\ Level(table, k) \in 0..Capacity
         /\ \A key \in Keys : Look(key) => (answer'.yes <=> Level(table, key) >= Cost)
         /\ \A key \in Keys : Look(key) /\ Kept(k) => Level(table, k)' = Level(table, k)
         /\ \A key \in Keys : Allow(key) /\ Kept(k) =>
              Level(table, k)' = Level(table, k) - (IF k = key /\ Level(table, key) >= Cost THEN Cost ELSE 0)
         /\ Tick => Level(table, k)' = AtMost(Level(table, k) + 1)
PROOF
<1>1. Level(table, k) \in 0..Capacity
  BY LevelType
<1>2. ASSUME NEW key \in Keys, Look(key)
      PROVE  answer'.yes <=> Level(table, key) >= Cost
  BY <1>2, TokenInBucket DEF Look
<1>3. ASSUME NEW key \in Keys, Look(key), Kept(k)
      PROVE  Level(table, k)' = Level(table, k)
  <2>1. 0 \in Nat /\ 0 <= Level(table, key) /\ table' = Charged(key, 0) /\ now' = now
    BY <1>3, TokenInBucket DEF Look
  <2>2. Level(table, k)' = Level(table, k) - (IF k = key THEN 0 ELSE 0)
    BY <1>3, <2>1, KeptAsk
  <2> QED BY <1>1, <2>2 DEF LimiterConstants
<1>4. ASSUME NEW key \in Keys, Allow(key), Kept(k)
      PROVE  Level(table, k)' = Level(table, k) - (IF k = key /\ Level(table, key) >= Cost THEN Cost ELSE 0)
  <2> DEFINE paid == IF HasToken(key) THEN Cost ELSE 0
  <2>1. paid \in Nat /\ paid <= Level(table, key) /\ table' = Charged(key, paid) /\ now' = now
    BY <1>4, TokenInBucket DEF Allow, LimiterConstants
  <2>2. Level(table, k)' = Level(table, k) - (IF k = key THEN paid ELSE 0)
    <3> HIDE DEF paid
    <3> QED BY <1>4, <2>1, KeptAsk
  <2> QED BY <2>2, TokenInBucket
<1>5. ASSUME Tick PROVE Level(table, k)' = AtMost(Level(table, k) + 1)
  BY <1>5 DEF Tick, TableInv, TableOK, LimiterConstants, Level, AtMost, Tracked
<1> QED BY <1>1, <1>2, <1>3, <1>4, <1>5

(* The limiter gives every key a bucket of its own that fills by itself: the *)
(* table's lazy refills, its dropping of full buckets and, only when it is   *)
(* crowded, of its oldest one are steps of TokenBuckets.                     *)
THEOREM LimiterImplementsBuckets ==
  ASSUME LimiterConstants
  PROVE  Spec => Buckets!Spec
PROOF
<1>1. Init => Buckets!Init
  BY DEF Init, Buckets!Init, Level, Tracked
<1>2. TableInv /\ [Next]_vars => [Buckets!Next]_Buckets!vars
  <2> SUFFICES ASSUME TableInv, [Next]_vars
               PROVE  [Buckets!Next]_Buckets!vars
    OBVIOUS
  <2>1. CASE Tick
    BY <2>1, TickRefines DEF Buckets!Next
  <2>2. ASSUME NEW k \in Keys, Allow(k)
        PROVE  Buckets!Next
    BY <2>2, AllowRefines DEF Buckets!Next
  <2>3. ASSUME NEW k \in Keys, Look(k)
        PROVE  Buckets!Next
    BY <2>3, LookRefines DEF Buckets!Next
  <2>4. CASE UNCHANGED vars
    BY <2>4 DEF vars, Buckets!vars, Level, Tracked, AtMost
  <2> QED BY <2>1, <2>2, <2>3, <2>4 DEF Next
<1> QED BY <1>1, <1>2, TableCorrect, PTL DEF Spec, Buckets!Spec
=============================================================================
