------------------------ MODULE AuthenticationProofs ------------------------
(* Proofs about Authentication, for any number of threads, clients and keys and *)
(* any limits: what the cache knows, what a request may do with it, that the    *)
(* two limiters keep their promise inside the requests of many threads, and how *)
(* many keys a client can guess.                                                *)
EXTENDS Authentication, FiniteSetTheorems, SequenceTheorems, TLAPS

-----------------------------------------------------------------------------
(* The invariant of requests and cache *)

Request == [at : Steps, client : Clients \cup {NoKey}, key : RawKeys \cup {NoKey}]

\* A request comes from a client, and gets to a step only with a key that belongs there.
RequestOK ==
  /\ request \in [Threads -> Request]
  /\ \A t \in Threads :
       /\ request[t].at # "idle" => request[t].client \in Clients
       /\ request[t].at \in {"lookup", "verify"} => request[t].key \in RawKeys
       /\ request[t].at = "spend" => request[t].key \in Stored
       /\ request[t].at = "fail" => request[t].key \notin Stored

CacheEntry == [key : Stored, expires : Int]

\* The cache holds each key once, until Ttl after its latest verification, and misses none it should know.
CacheOK ==
  /\ verified \in Seq(CacheEntry) /\ Len(verified) <= MaxEntries
  /\ \A i, j \in 1..Len(verified) : verified[i].key = verified[j].key => i = j
  /\ \A i \in 1..Len(verified) :
       known[verified[i].key] # Never /\ verified[i].expires = known[verified[i].key] + Ttl
  /\ \A k \in Stored : known[k] # Never /\ now <= known[k] + Ttl =>
                         \E i \in 1..Len(verified) : verified[i].key = k

HistoryOK ==
  /\ now \in 0..MaxTime
  /\ known \in [Stored -> {Never} \cup 0..MaxTime]
  /\ guesses \in [Clients -> {Uncounted} \cup Nat]

AuthInv == RequestOK /\ CacheOK /\ HistoryOK

-----------------------------------------------------------------------------
(* Lemmas about the cache *)

\* A key is cached when an entry is its; the entry is the only one, and says when it expires.
LEMMA CachedEntry ==
  ASSUME CacheOK, NEW k
  PROVE  /\ Cached(k) <=> \E i \in 1..Len(verified) : verified[i].key = k
         /\ \A i \in 1..Len(verified) : verified[i].key = k =>
              ExpiryOf(k) = verified[i].expires /\ Place(k) = i
<1>1. DOMAIN verified = 1..Len(verified)
  BY LenProperties DEF CacheOK
<1>2. Entry(k) = {i \in 1..Len(verified) : verified[i].key = k}
  BY <1>1 DEF Entry
<1>3. Cached(k) <=> \E i \in 1..Len(verified) : verified[i].key = k
  BY <1>2 DEF Cached
<1>4. ASSUME NEW i \in 1..Len(verified), verified[i].key = k
      PROVE  ExpiryOf(k) = verified[i].expires /\ Place(k) = i
  <2>1. Entry(k) = {i}
    BY <1>2, <1>4 DEF CacheOK
  <2>2. Place(k) = i
    BY <2>1 DEF Place
  <2> QED BY <2>2 DEF ExpiryOf
<1> QED BY <1>3, <1>4

\* Dropping a key takes out its entry and leaves the others, in their order.
LEMMA DroppedCache ==
  ASSUME CacheOK, NEW k, Cached(k)
  PROVE  /\ Dropped(k) \in Seq(CacheEntry) /\ Len(Dropped(k)) = Len(verified) - 1
         /\ \E n \in 1..Len(verified) :
              /\ verified[n].key = k
              /\ \A i \in 1..Len(Dropped(k)) :
                   Dropped(k)[i] = verified[IF i < n THEN i ELSE i + 1]
<1>1. PICK n \in 1..Len(verified) : verified[n].key = k
  BY CachedEntry
<1>2. Dropped(k) = SubSeq(verified, 1, n - 1) \o SubSeq(verified, n + 1, Len(verified))
  <2>1. Place(k) = n
    BY <1>1, CachedEntry
  <2> QED BY <2>1 DEF Dropped, RemoveAt
<1>3. verified \in Seq(CacheEntry) /\ Len(verified) \in Nat
  BY LenProperties DEF CacheOK
<1> DEFINE a == SubSeq(verified, 1, n - 1)
           b == SubSeq(verified, n + 1, Len(verified))
<1>4. /\ a \in Seq(CacheEntry) /\ Len(a) = n - 1
      /\ \A i \in 1..n - 1 : a[i] = verified[i]
  BY <1>3, SubSeqProperties
<1>5. /\ b \in Seq(CacheEntry) /\ Len(b) = Len(verified) - n
      /\ \A i \in 1..Len(verified) - n : b[i] = verified[n + i]
  BY <1>3, SubSeqProperties
<1> HIDE DEF a, b
<1>6. /\ a \o b \in Seq(CacheEntry) /\ Len(a \o b) = Len(verified) - 1
      /\ \A i \in 1..Len(a \o b) : (a \o b)[i] = IF i <= Len(a) THEN a[i] ELSE b[i - Len(a)]
  <2>1. /\ a \o b \in Seq(CacheEntry) /\ Len(a \o b) = Len(a) + Len(b)
        /\ \A i \in 1..Len(a) + Len(b) : (a \o b)[i] = IF i <= Len(a) THEN a[i] ELSE b[i - Len(a)]
    BY <1>4, <1>5, ConcatProperties
  <2>2. Len(a) + Len(b) = Len(verified) - 1
    BY <1>3, <1>4, <1>5
  <2> QED BY <2>1, <2>2
<1>7. \A i \in 1..Len(a \o b) : (a \o b)[i] = verified[IF i < n THEN i ELSE i + 1]
  BY <1>3, <1>4, <1>5, <1>6
<1>8. Dropped(k) = a \o b
  BY <1>2 DEF a, b
<1> QED BY <1>1, <1>6, <1>7, <1>8

\* Remembering a key makes room when the cache is full, and leaves every other key's entry as it was.
LEMMA RememberedCache ==
  ASSUME CacheOK, HistoryOK, NEW k \in Stored
  PROVE  /\ Remembered(k) \in Seq(CacheEntry) /\ Len(Remembered(k)) <= MaxEntries
         /\ \A i, j \in 1..Len(Remembered(k)) : Remembered(k)[i].key = Remembered(k)[j].key => i = j
         /\ \A i \in 1..Len(Remembered(k)) :
              IF Remembered(k)[i].key = k THEN Remembered(k)[i].expires = now + Ttl
              ELSE \E j \in 1..Len(verified) : Remembered(k)[i] = verified[j]
         /\ \E i \in 1..Len(Remembered(k)) : Remembered(k)[i].key = k
         /\ Len(verified) < MaxEntries =>
              \A j \in 1..Len(verified) : \E i \in 1..Len(Remembered(k)) : Remembered(k)[i].key = verified[j].key
<1> DEFINE kept == IF Len(verified) >= MaxEntries THEN Tail(verified) ELSE verified
           entry == [key |-> k, expires |-> now + Ttl]
           replaced == [i \in DOMAIN kept |-> IF kept[i].key = k THEN entry ELSE kept[i]]
           before == Len(verified) - Len(kept)
<1>0. verified \in Seq(CacheEntry) /\ Len(verified) \in Nat /\ MaxEntries \in Nat \ {0}
  BY LenProperties, AuthenticationAssumption DEF CacheOK
<1>1. /\ kept \in Seq(CacheEntry) /\ Len(kept) \in Nat /\ Len(kept) < MaxEntries /\ before \in Nat
      /\ \A i \in 1..Len(kept) : i + before \in 1..Len(verified) /\ kept[i] = verified[i + before]
      /\ Len(verified) < MaxEntries => before = 0
  <2>1. CASE Len(verified) >= MaxEntries
    <3>1. verified # << >>
      BY <1>0, <2>1, EmptySeq
    <3>2. /\ Tail(verified) \in Seq(CacheEntry) /\ Len(Tail(verified)) = Len(verified) - 1
          /\ \A i \in 1..Len(Tail(verified)) : Tail(verified)[i] = verified[i + 1]
      BY <1>0, <3>1, HeadTailProperties
    <3>3. kept = Tail(verified)
      BY <2>1
    <3>4. Len(verified) <= MaxEntries
      BY DEF CacheOK
    <3>5. before = 1
      <4>1. Len(kept) = Len(verified) - 1
        BY <3>2, <3>3
      <4> HIDE DEF kept
      <4> QED BY <1>0, <4>1
    <3> HIDE DEF kept, before
    <3> QED BY <1>0, <2>1, <3>2, <3>3, <3>4, <3>5
  <2>2. CASE ~ (Len(verified) >= MaxEntries)
    <3>1. kept = verified
      BY <2>2
    <3> HIDE DEF kept
    <3> QED BY <1>0, <2>2, <3>1
  <2> QED BY <2>1, <2>2
<1>2. entry \in CacheEntry /\ entry.key = k /\ entry.expires = now + Ttl
  BY AuthenticationAssumption DEF CacheEntry, HistoryOK
<1>3. DOMAIN kept = 1..Len(kept)
  BY <1>1, LenProperties
<1>4. Remembered(k) = IF \E i \in 1..Len(kept) : kept[i].key = k THEN replaced ELSE Append(kept, entry)
  <2>1. Remembered(k) = IF \E i \in DOMAIN kept : kept[i].key = k THEN replaced ELSE Append(kept, entry)
    BY DEF Remembered
  <2> HIDE DEF kept, replaced, entry
  <2> QED BY <1>3, <2>1
<1> HIDE DEF kept, entry, before
<1>5. \A i, j \in 1..Len(kept) : kept[i].key = kept[j].key => i = j
  <2> TAKE i, j \in 1..Len(kept)
  <2> HAVE kept[i].key = kept[j].key
  <2>1. i + before \in 1..Len(verified) /\ j + before \in 1..Len(verified)
    BY <1>1
  <2>2. verified[i + before].key = verified[j + before].key
    BY <1>1
  <2>3. i + before = j + before
    BY <2>1, <2>2 DEF CacheOK
  <2> QED BY <1>1, <2>3
<1>6. ASSUME Len(verified) < MaxEntries, NEW j \in 1..Len(verified)
      PROVE  \E i \in 1..Len(kept) : kept[i].key = verified[j].key
  <2>1. j \in 1..Len(kept) /\ kept[j] = verified[j]
    BY <1>0, <1>1, <1>6 DEF before
  <2> QED BY <2>1
<1>7. CASE \E i \in 1..Len(kept) : kept[i].key = k
  <2>1. Remembered(k) = replaced
    BY <1>4, <1>7
  <2>2. /\ replaced \in Seq(CacheEntry) /\ Len(replaced) = Len(kept)
        /\ \A i \in 1..Len(kept) : replaced[i] = IF kept[i].key = k THEN entry ELSE kept[i]
    <3>1. \A i \in 1..Len(kept) : kept[i] \in CacheEntry
      BY <1>1, ElementOfSeq
    <3>2. replaced \in [1..Len(kept) -> CacheEntry]
      BY <1>2, <1>3, <3>1
    <3>3. replaced \in Seq(CacheEntry) /\ Len(replaced) = Len(kept)
      <4> HIDE DEF replaced
      <4> QED BY <1>1, <3>2, SeqDef, LenProperties
    <3> QED BY <1>3, <3>3
  <2> HIDE DEF replaced
  <2>3. \A i \in 1..Len(kept) : replaced[i].key = kept[i].key
    BY <1>2, <2>2
  <2>4. \A i \in 1..Len(kept) :
          IF replaced[i].key = k THEN replaced[i].expires = now + Ttl
          ELSE \E j \in 1..Len(verified) : replaced[i] = verified[j]
    BY <1>1, <1>2, <2>2, <2>3
  <2>5. \E i \in 1..Len(kept) : replaced[i].key = k
    BY <1>7, <2>3
  <2>6. Len(replaced) <= MaxEntries
    BY <1>0, <1>1, <2>2
  <2> QED BY <1>5, <1>6, <2>1, <2>2, <2>3, <2>4, <2>5, <2>6
<1>8. CASE ~ \E i \in 1..Len(kept) : kept[i].key = k
  <2> DEFINE longer == Append(kept, entry)
  <2>1. Remembered(k) = longer
    BY <1>4, <1>8
  <2>2. /\ longer \in Seq(CacheEntry) /\ Len(longer) = Len(kept) + 1
        /\ \A i \in 1..Len(kept) : longer[i] = kept[i]
        /\ longer[Len(kept) + 1] = entry
    BY <1>1, <1>2, AppendProperties
  <2> HIDE DEF longer
  <2>3. \A i \in 1..Len(longer) : i \in 1..Len(kept) \/ i = Len(kept) + 1
    BY <1>1, <2>2
  <2>4. \A i, j \in 1..Len(longer) : longer[i].key = longer[j].key => i = j
    BY <1>2, <1>5, <1>8, <2>2, <2>3
  <2>5. \A i \in 1..Len(longer) :
          IF longer[i].key = k THEN longer[i].expires = now + Ttl
          ELSE \E j \in 1..Len(verified) : longer[i] = verified[j]
    BY <1>1, <1>2, <1>8, <2>2, <2>3
  <2>6. \A i \in 1..Len(kept) : i \in 1..Len(longer)
    BY <1>1, <2>2
  <2>7. Len(kept) + 1 \in 1..Len(longer) /\ Len(longer) <= MaxEntries
    BY <1>0, <1>1, <2>2
  <2> QED BY <1>2, <1>6, <2>1, <2>2, <2>4, <2>5, <2>6, <2>7
<1> QED BY <1>7, <1>8

-----------------------------------------------------------------------------
(* Every step keeps the invariant *)

\* Before the first request nobody is known and nothing is cached.
LEMMA InitAuth == Init => AuthInv
<1> SUFFICES ASSUME Init PROVE AuthInv
  OBVIOUS
<1>1. now = 0
  BY DEF Init, perKey!Init
<1>2. RequestOK
  BY DEF Init, RequestOK, Idle, Request, Steps
<1>3. CacheOK
  <2>1. verified = << >> /\ Len(verified) = 0 /\ verified \in Seq(CacheEntry)
    BY EmptySeq DEF Init
  <2>2. \A k \in Stored : known[k] = Never
    BY DEF Init
  <2> QED BY <2>1, <2>2, AuthenticationAssumption DEF CacheOK
<1>4. HistoryOK
  BY <1>1, AuthenticationAssumption DEF Init, HistoryOK
<1> QED BY <1>2, <1>3, <1>4 DEF AuthInv

\* Every step of a thread leaves its request at a step where its key belongs.
LEMMA StepRequest ==
  ASSUME AuthInv, NEW t \in Threads, Step(t)
  PROVE  RequestOK'
<1> USE DEF AuthInv
<1>0. request \in [Threads -> Request] /\ request[t] \in Request
  BY DEF RequestOK
<1>1. ASSUME Answer(t) PROVE RequestOK'
  BY <1>0, <1>1 DEF Answer, RequestOK, Request, Steps, Idle
<1>2. ASSUME NEW step \in {"throttle", "verify", "spend", "fail"}, Goto(t, step),
             request[t].at # "idle",
             step = "verify" => request[t].key \in RawKeys,
             step = "spend" => request[t].key \in Stored,
             step = "fail" => request[t].key \notin Stored
      PROVE  RequestOK'
  <2>1. request' = [request EXCEPT ![t].at = step]
    BY <1>2 DEF Goto
  <2>2. request' \in [Threads -> Request]
    BY <1>0, <2>1 DEF Request, Steps
  <2>3. /\ request'[t].at = step /\ request'[t].key = request[t].key /\ request'[t].client = request[t].client
        /\ \A u \in Threads \ {t} : request'[u] = request[u]
    BY <1>0, <2>1 DEF Request
  <2> QED BY <1>2, <2>2, <2>3 DEF RequestOK
<1>3. CASE Arrive(t)
  <2>1. PICK r \in Requests : request' = [request EXCEPT ![t] =
          [at |-> IF r[2] = NoKey THEN "throttle" ELSE "lookup", client |-> r[1], key |-> r[2]]]
    BY <1>3 DEF Arrive
  <2>2. PICK c \in Clients, k \in RawKeys \cup {NoKey} : r = <<c, k>>
    BY AuthenticationAssumption
  <2>3. request' = [request EXCEPT ![t] =
          [at |-> IF k = NoKey THEN "throttle" ELSE "lookup", client |-> c, key |-> k]]
    BY <2>1, <2>2
  <2> QED BY <1>0, <2>3 DEF RequestOK, Request, Steps
<1>4. CASE Lookup(t)
  <2>1. ASSUME Cached(request[t].key) PROVE request[t].key \in Stored
    <3>1. PICK i \in 1..Len(verified) : verified[i].key = request[t].key
      BY <2>1, CachedEntry
    <3>2. verified[i] \in CacheEntry
      BY ElementOfSeq DEF CacheOK
    <3> QED BY <3>1, <3>2 DEF CacheEntry
  <2> QED BY <1>2, <1>4, <2>1 DEF Lookup
<1>5. CASE Throttle(t)
  <2>1. CASE ~ failureAnswer'.yes
    BY <1>1, <1>5, <2>1 DEF Throttle
  <2>2. CASE failureAnswer'.yes /\ request[t].key = NoKey
    <3>1. NoKey \notin Stored
      BY AuthenticationAssumption
    <3> QED BY <1>2, <1>5, <2>2, <3>1 DEF Throttle
  <2>3. CASE failureAnswer'.yes /\ request[t].key # NoKey
    <3>1. request[t].key \in RawKeys
      BY <1>0, <2>3 DEF Request
    <3> QED BY <1>2, <1>5, <2>3, <3>1 DEF Throttle
  <2> QED BY <2>1, <2>2, <2>3
<1>6. CASE VerifyStored(t)
  BY <1>2, <1>6 DEF VerifyStored
<1>7. CASE VerifyUnknown(t)
  BY <1>2, <1>7 DEF VerifyUnknown
<1>8. CASE Spend(t) \/ Fail(t)
  BY <1>1, <1>8 DEF Spend, Fail
<1> QED BY <1>3, <1>4, <1>5, <1>6, <1>7, <1>8 DEF Step

\* Every step of a thread keeps the histories of their types.
LEMMA StepHistory ==
  ASSUME AuthInv, NEW t \in Threads, Step(t)
  PROVE  HistoryOK'
<1> USE DEF AuthInv, HistoryOK
<1>1. now' = now
  BY DEF Step, Arrive, Lookup, Throttle, VerifyStored, VerifyUnknown, Spend, Fail, failures!Look, failures!Allow,
         perKey!Allow
<1>2. CASE VerifyStored(t)
  BY <1>1, <1>2 DEF VerifyStored
<1>3. CASE VerifyUnknown(t)
  <2>1. request[t].client \in Clients
    BY <1>3 DEF VerifyUnknown, RequestOK
  <2> QED BY <1>1, <1>3, <2>1 DEF VerifyUnknown
<1>4. CASE Throttle(t) \/ Fail(t)
  BY <1>1, <1>4 DEF Throttle, Fail, Counted
<1>5. CASE Arrive(t) \/ Lookup(t) \/ Spend(t)
  BY <1>1, <1>5 DEF Arrive, Lookup, Spend, history
<1> QED BY <1>2, <1>3, <1>4, <1>5 DEF Step

\* An entry that is found to be out of date is the one that is dropped.
LEMMA LookupCache ==
  ASSUME AuthInv, NEW t \in Threads, Lookup(t)
  PROVE  CacheOK'
<1> USE DEF AuthInv
<1> DEFINE k == request[t].key
<1>1. now' = now /\ known' = known
  BY DEF Lookup, history
<1>2. CASE ~ Expired(k)
  <2>1. verified' = verified
    BY <1>2 DEF Lookup
  <2> QED BY <1>1, <2>1 DEF CacheOK
<1>3. CASE Expired(k)
  <2>0. verified \in Seq(CacheEntry) /\ Len(verified) \in Nat /\ MaxEntries \in Nat /\ Len(verified) <= MaxEntries
    BY LenProperties, AuthenticationAssumption DEF CacheOK
  <2>1. verified' = Dropped(k) /\ Cached(k) /\ ExpiryOf(k) < now
    BY <1>3 DEF Lookup, Expired
  <2>2. PICK n \in 1..Len(verified) :
          /\ verified[n].key = k
          /\ \A i \in 1..Len(verified') : verified'[i] = verified[IF i < n THEN i ELSE i + 1]
    BY <2>1, DroppedCache
  <2>3. verified' \in Seq(CacheEntry) /\ Len(verified') = Len(verified) - 1
    BY <2>1, DroppedCache
  <2>4. known[k] + Ttl < now
    BY <2>1, <2>2, CachedEntry DEF CacheOK
  <2> HIDE DEF k
  <2>5. ASSUME NEW i \in 1..Len(verified')
        PROVE  \E m \in 1..Len(verified) : m = (IF i < n THEN i ELSE i + 1) /\ verified'[i] = verified[m]
    BY <2>0, <2>2, <2>3
  <2>6. Len(verified') <= MaxEntries
    BY <2>0, <2>3
  <2>7. ASSUME NEW i \in 1..Len(verified'), NEW j \in 1..Len(verified'), verified'[i].key = verified'[j].key
        PROVE  i = j
    <3>1. (IF i < n THEN i ELSE i + 1) = (IF j < n THEN j ELSE j + 1)
      BY <2>5, <2>7 DEF CacheOK
    <3> QED BY <2>0, <2>3, <3>1
  <2>8. \A i \in 1..Len(verified') :
          known[verified'[i].key] # Never /\ verified'[i].expires = known[verified'[i].key] + Ttl
    BY <2>5 DEF CacheOK
  <2>9. ASSUME NEW q \in Stored, known[q] # Never, now <= known[q] + Ttl
        PROVE  \E i \in 1..Len(verified') : verified'[i].key = q
    <3>1. PICK m \in 1..Len(verified) : verified[m].key = q
      BY <2>9 DEF CacheOK
    <3>2. m # n
      <4>1. CASE q = k
        <5>1. known[q] \in Int /\ now \in Int /\ Ttl \in Int
          BY AuthenticationAssumption DEF HistoryOK, Never
        <5> QED BY <2>4, <2>9, <4>1, <5>1
      <4>2. CASE q # k
        BY <2>2, <3>1, <4>2
      <4> QED BY <4>1, <4>2
    <3>3. CASE m < n
      <4>1. m \in 1..Len(verified')
        BY <2>0, <2>3, <3>3
      <4> QED BY <2>2, <3>1, <3>3, <4>1
    <3>4. CASE ~ (m < n)
      <4>1. m - 1 \in 1..Len(verified') /\ ~ (m - 1 < n) /\ (m - 1) + 1 = m
        BY <2>0, <2>3, <3>2, <3>4
      <4> QED BY <2>2, <3>1, <4>1
    <3> QED BY <3>3, <3>4
  <2> QED BY <1>1, <2>3, <2>6, <2>7, <2>8, <2>9 DEF CacheOK
<1> QED BY <1>2, <1>3

\* A key that was verified in full is known again, and no other is forgotten unless the cache was full.
LEMMA VerifyCache ==
  ASSUME AuthInv, NEW t \in Threads, VerifyStored(t)
  PROVE  CacheOK'
<1> USE DEF AuthInv
<1> DEFINE k == request[t].key
<1>1. k \in Stored /\ verified' = Remembered(k) /\ now' = now
  BY DEF VerifyStored
<1>2. now \in Nat /\ Ttl \in Nat
  BY AuthenticationAssumption DEF HistoryOK
<1>3. \A q \in Stored :
        known'[q] = IF q = k THEN now
                    ELSE IF Len(verified) >= MaxEntries /\ Cached(q) /\ ~ Cached(q)' THEN Never ELSE known[q]
  BY DEF VerifyStored
<1> HIDE DEF k
<1>4. /\ verified' \in Seq(CacheEntry) /\ Len(verified') <= MaxEntries
      /\ \A i, j \in 1..Len(verified') : verified'[i].key = verified'[j].key => i = j
  BY <1>1, RememberedCache
<1>8. Len(verified) < MaxEntries =>
        \A j \in 1..Len(verified) : \E i \in 1..Len(Remembered(k)) : Remembered(k)[i].key = verified[j].key
  BY <1>1, RememberedCache
<1>5. \A q : Cached(q)' <=> \E i \in 1..Len(verified') : verified'[i].key = q
  <2>1. DOMAIN verified' = 1..Len(verified')
    BY <1>4, LenProperties
  <2> QED BY <2>1 DEF Cached, Entry
<1>6. ASSUME NEW i \in 1..Len(verified')
      PROVE  known'[verified'[i].key] # Never /\ verified'[i].expires = known'[verified'[i].key] + Ttl
  <2>1. verified'[i].key \in Stored
    <3>1. verified'[i] \in CacheEntry
      BY <1>4, ElementOfSeq
    <3> QED BY <3>1 DEF CacheEntry
  <2>2. CASE verified'[i].key = k
    <3>1. verified'[i].expires = now + Ttl
      BY <1>1, <2>2, RememberedCache
    <3>2. known'[k] = now
      BY <1>1, <1>3
    <3> QED BY <1>2, <2>2, <3>1, <3>2 DEF Never
  <2>3. CASE verified'[i].key # k
    <3>1. PICK j \in 1..Len(verified) : verified'[i] = verified[j]
      BY <1>1, <2>3, RememberedCache
    <3>2. known'[verified'[i].key] = known[verified'[i].key]
      BY <1>3, <1>5, <2>1, <2>3
    <3> QED BY <3>1, <3>2 DEF CacheOK
  <2> QED BY <2>2, <2>3
<1>7. ASSUME NEW q \in Stored, known'[q] # Never, now' <= known'[q] + Ttl
      PROVE  \E i \in 1..Len(verified') : verified'[i].key = q
  <2>1. CASE q = k
    BY <1>1, <2>1, RememberedCache
  <2>2. CASE q # k
    <3>1. known'[q] = known[q] /\ ~ (Len(verified) >= MaxEntries /\ Cached(q) /\ ~ Cached(q)')
      BY <1>3, <1>7, <2>2
    <3>2. PICK j \in 1..Len(verified) : verified[j].key = q
      BY <1>1, <1>7, <3>1 DEF CacheOK
    <3>3. CASE Len(verified) >= MaxEntries
      BY <1>5, <3>1, <3>2, <3>3, CachedEntry
    <3>4. CASE ~ (Len(verified) >= MaxEntries)
      <4>1. Len(verified) < MaxEntries
        BY <3>4, LenProperties, AuthenticationAssumption DEF CacheOK
      <4>2. \E i \in 1..Len(verified') : verified'[i].key = verified[j].key
        BY <1>1, <1>8, <4>1
      <4> QED BY <3>2, <4>2
    <3> QED BY <3>3, <3>4
  <2> QED BY <2>1, <2>2
<1> QED BY <1>4, <1>6, <1>7 DEF CacheOK

\* Every step keeps the invariant.
LEMMA NextAuth == AuthInv /\ [Next]_vars => AuthInv'
<1> SUFFICES ASSUME AuthInv, [Next]_vars PROVE AuthInv'
  OBVIOUS
<1>1. CASE Tick
  <2>1. RequestOK'
    BY <1>1 DEF Tick, AuthInv, RequestOK
  <2>2. HistoryOK'
    BY <1>1, AuthenticationAssumption DEF Tick, AuthInv, HistoryOK, history
  <2>3. CacheOK'
    <3>1. now \in Int /\ MaxTime \in Int /\ Ttl \in Int /\ \A k \in Stored : known[k] \in Int
      BY AuthenticationAssumption DEF AuthInv, HistoryOK, Never
    <3>2. now' = now + 1 /\ verified' = verified /\ known' = known
      BY <1>1 DEF Tick, history
    <3>3. \A k \in Stored : now' <= known[k] + Ttl => now <= known[k] + Ttl
      BY <3>1, <3>2
    <3> QED BY <3>2, <3>3 DEF AuthInv, CacheOK
  <2> QED BY <2>1, <2>2, <2>3 DEF AuthInv
<1>2. ASSUME NEW t \in Threads, Step(t) PROVE AuthInv'
  <2>1. CASE Lookup(t)
    BY <1>2, <2>1, StepRequest, StepHistory, LookupCache DEF AuthInv
  <2>2. CASE VerifyStored(t)
    BY <1>2, <2>2, StepRequest, StepHistory, VerifyCache DEF AuthInv
  <2>3. CASE ~ (Lookup(t) \/ VerifyStored(t))
    <3>1. verified' = verified /\ known' = known /\ now' = now
      BY <1>2, <2>3 DEF Step, Arrive, Throttle, VerifyUnknown, Spend, Fail, history, failures!Look,
                        failures!Allow, perKey!Allow
    <3>2. CacheOK'
      BY <3>1 DEF AuthInv, CacheOK
    <3> QED BY <1>2, <3>2, StepRequest, StepHistory DEF AuthInv
  <2> QED BY <2>1, <2>2, <2>3
<1>3. CASE UNCHANGED vars
  BY <1>3 DEF vars, history, AuthInv, RequestOK, CacheOK, HistoryOK
<1> QED BY <1>1, <1>2, <1>3 DEF Next

\* Requests and cache satisfy the invariant whatever the threads interleave.
THEOREM AuthInvariant == Spec => []AuthInv
<1> QED BY InitAuth, NextAuth, PTL DEF Spec

(* A key is known exactly as long as it should be: until Ttl after its latest verification and  *)
(* no longer, unless a full cache dropped it, however many threads verified it meanwhile.       *)
THEOREM KeysAreKnownLongEnough == Spec => []CacheKnowsRecentKeys
<1>1. AuthInv => CacheKnowsRecentKeys
  <2> SUFFICES ASSUME AuthInv, NEW k \in Stored
               PROVE  /\ known[k] # Never /\ now <= known[k] + Ttl => Cached(k)
                      /\ Cached(k) => ExpiryOf(k) = known[k] + Ttl
    BY DEF CacheKnowsRecentKeys
  <2>1. CacheOK
    BY DEF AuthInv
  <2>2. known[k] # Never /\ now <= known[k] + Ttl => Cached(k)
    BY <2>1, CachedEntry DEF CacheOK
  <2>3. ASSUME Cached(k) PROVE ExpiryOf(k) = known[k] + Ttl
    <3>1. PICK i \in 1..Len(verified) : verified[i].key = k
      BY <2>1, <2>3, CachedEntry
    <3> QED BY <2>1, <3>1, CachedEntry DEF CacheOK
  <2> QED BY <2>2, <2>3
<1> QED BY <1>1, AuthInvariant, PTL

(* Nothing is let through on an entry that has run out: a request goes to its key's bucket      *)
(* without a verification of its own only within Ttl of one that somebody made.                 *)
THEOREM NothingStaleIsServed == Spec => CacheIsNotStale
<1> DEFINE Fresh == \A t \in Threads : request[t].at = "lookup" /\ request'[t].at = "spend"
                      => known[request[t].key] # Never /\ now <= known[request[t].key] + Ttl
<1>1. ASSUME AuthInv, [Next]_vars PROVE [Fresh]_vars
  <2> SUFFICES ASSUME Next, NEW t \in Threads, request[t].at = "lookup", request'[t].at = "spend"
               PROVE  known[request[t].key] # Never /\ now <= known[request[t].key] + Ttl
    BY <1>1
  <2>0. request \in [Threads -> Request] /\ request[t] \in Request /\ CacheOK
    BY <1>1 DEF AuthInv, RequestOK
  <2>1. Lookup(t)
    <3>1. \A u \in Threads : Step(u) => \A q \in Threads \ {u} : request'[q] = request[q]
      BY <2>0 DEF Step, Arrive, Lookup, Throttle, VerifyStored, VerifyUnknown, Spend, Fail, Goto, Answer
    <3>2. Step(t)
      BY <3>1 DEF Next, Tick
    <3> QED BY <3>2 DEF Step, Arrive, Throttle, VerifyStored, VerifyUnknown, Spend, Fail
  <2>2. Cached(request[t].key) /\ ~ Expired(request[t].key)
    BY <2>0, <2>1 DEF Lookup, Goto, Request
  <2>3. PICK i \in 1..Len(verified) : verified[i].key = request[t].key
    BY <2>0, <2>2, CachedEntry
  <2>4. /\ known[request[t].key] # Never /\ verified[i].expires = known[request[t].key] + Ttl
        /\ verified[i].expires \in Int
    <3>1. verified[i] \in CacheEntry
      BY <2>0, ElementOfSeq DEF CacheOK
    <3> QED BY <2>0, <2>3, <3>1 DEF CacheOK, CacheEntry
  <2>5. ~ (verified[i].expires < now) /\ now \in Int
    BY <1>1, <2>0, <2>2, <2>3, CachedEntry DEF Expired, AuthInv, HistoryOK
  <2> QED BY <2>4, <2>5
<1>2. AuthInv /\ [Next]_vars => [Fresh]_vars
  BY <1>1
<1> QED BY <1>2, AuthInvariant, PTL DEF Spec, CacheIsNotStale

-----------------------------------------------------------------------------
(* The two limiters, as RateLimiterProofs knows them *)

keyProofs == INSTANCE RateLimiterProofs WITH
  Keys <- Stored, Capacity <- KeyCapacity, Cost <- KeyCost, table <- keyTable, answer <- keyAnswer

failureProofs == INSTANCE RateLimiterProofs WITH
  Keys <- Clients, Capacity <- FailureCapacity, Cost <- FailureCost,
  table <- failureTable, answer <- failureAnswer


-----------------------------------------------------------------------------
(* The limiter of the stored keys *)

\* The limiter of RateLimiterProofs is that of the stored keys: the same room is made for a key.
LEMMA KeyLimiterRoom ==
  ASSUME NEW key
  PROVE  keyProofs!MadeRoom(key) = perKey!MadeRoom(key)
BY DEF keyProofs!MadeRoom, perKey!MadeRoom, keyProofs!Tracked, perKey!Tracked, keyProofs!Without, perKey!Without,
       keyProofs!FullByNow, perKey!FullByNow, keyProofs!Oldest, perKey!Oldest,
       keyProofs!Cardinality, perKey!Cardinality

\* Levels, answers and what a question does to the table are the same.
LEMMA KeyLimiterSteps ==
  /\ keyProofs!LimiterConstants <=> perKey!LimiterConstants
  /\ keyProofs!Init <=> perKey!Init
  /\ \A t, key : keyProofs!Level(t, key) = perKey!Level(t, key)
  /\ \A key : keyProofs!Allow(key) <=> perKey!Allow(key)
  /\ \A key : keyProofs!Look(key) <=> perKey!Look(key)
  /\ keyProofs!TableOK <=> perKey!TableOK
<1>1. \A t, key : keyProofs!Level(t, key) = perKey!Level(t, key)
  BY DEF keyProofs!Level, perKey!Level, keyProofs!AtMost, perKey!AtMost
<1>2. \A key : keyProofs!HasToken(key) <=> perKey!HasToken(key)
  BY <1>1, KeyLimiterRoom DEF keyProofs!HasToken, perKey!HasToken
<1>3. \A key, price : keyProofs!Charged(key, price) = perKey!Charged(key, price)
  BY <1>1, KeyLimiterRoom DEF keyProofs!Charged, perKey!Charged, keyProofs!Inserted, perKey!Inserted
<1>4. \A key : keyProofs!Allow(key) <=> perKey!Allow(key)
  BY <1>2, <1>3 DEF keyProofs!Allow, perKey!Allow
<1>5. \A key : keyProofs!Look(key) <=> perKey!Look(key)
  BY <1>2, <1>3 DEF keyProofs!Look, perKey!Look
<1>6. keyProofs!TableOK <=> perKey!TableOK
  BY DEF keyProofs!TableOK, perKey!TableOK, keyProofs!Tracked, perKey!Tracked, keyProofs!Ordered, perKey!Ordered,
         keyProofs!Cardinality, perKey!Cardinality
<1>7. keyProofs!LimiterConstants <=> perKey!LimiterConstants
  BY DEF keyProofs!LimiterConstants, perKey!LimiterConstants
<1>8. keyProofs!Init <=> perKey!Init
  BY DEF keyProofs!Init, perKey!Init
<1> QED BY <1>1, <1>4, <1>5, <1>6, <1>7, <1>8


-----------------------------------------------------------------------------
(* The limiter of failed attempts *)

\* The limiter of RateLimiterProofs is that of the failed attempts: the same room is made for a key.
LEMMA FailureLimiterRoom ==
  ASSUME NEW key
  PROVE  failureProofs!MadeRoom(key) = failures!MadeRoom(key)
BY DEF failureProofs!MadeRoom, failures!MadeRoom, failureProofs!Tracked, failures!Tracked, failureProofs!Without, failures!Without,
       failureProofs!FullByNow, failures!FullByNow, failureProofs!Oldest, failures!Oldest,
       failureProofs!Cardinality, failures!Cardinality

\* Levels, answers and what a question does to the table are the same.
LEMMA FailureLimiterSteps ==
  /\ failureProofs!LimiterConstants <=> failures!LimiterConstants
  /\ failureProofs!Init <=> failures!Init
  /\ \A t, key : failureProofs!Level(t, key) = failures!Level(t, key)
  /\ \A key : failureProofs!Allow(key) <=> failures!Allow(key)
  /\ \A key : failureProofs!Look(key) <=> failures!Look(key)
  /\ failureProofs!TableOK <=> failures!TableOK
<1>1. \A t, key : failureProofs!Level(t, key) = failures!Level(t, key)
  BY DEF failureProofs!Level, failures!Level, failureProofs!AtMost, failures!AtMost
<1>2. \A key : failureProofs!HasToken(key) <=> failures!HasToken(key)
  BY <1>1, FailureLimiterRoom DEF failureProofs!HasToken, failures!HasToken
<1>3. \A key, price : failureProofs!Charged(key, price) = failures!Charged(key, price)
  BY <1>1, FailureLimiterRoom DEF failureProofs!Charged, failures!Charged, failureProofs!Inserted, failures!Inserted
<1>4. \A key : failureProofs!Allow(key) <=> failures!Allow(key)
  BY <1>2, <1>3 DEF failureProofs!Allow, failures!Allow
<1>5. \A key : failureProofs!Look(key) <=> failures!Look(key)
  BY <1>2, <1>3 DEF failureProofs!Look, failures!Look
<1>6. failureProofs!TableOK <=> failures!TableOK
  BY DEF failureProofs!TableOK, failures!TableOK, failureProofs!Tracked, failures!Tracked, failureProofs!Ordered, failures!Ordered,
         failureProofs!Cardinality, failures!Cardinality
<1>7. failureProofs!LimiterConstants <=> failures!LimiterConstants
  BY DEF failureProofs!LimiterConstants, failures!LimiterConstants
<1>8. failureProofs!Init <=> failures!Init
  BY DEF failureProofs!Init, failures!Init
<1> QED BY <1>1, <1>4, <1>5, <1>6, <1>7, <1>8

-----------------------------------------------------------------------------
\* A request is at most one step of the limiter of its key.
LEMMA KeyLimiterNext ==
  ASSUME AuthInv, [Next]_vars
  PROVE  [keyProofs!Next]_keyProofs!vars
<1> USE DEF AuthInv, RequestOK
<1>1. CASE Tick
  BY <1>1 DEF Tick, keyVars, keyProofs!Next, keyProofs!Tick
<1>2. ASSUME NEW t \in Threads, Spend(t) PROVE keyProofs!Next
  <2>1. request[t].key \in Stored /\ keyProofs!Allow(request[t].key)
    BY <1>2, KeyLimiterSteps DEF Spend
  <2> QED BY <2>1 DEF keyProofs!Next
<1>3. ASSUME NEW t \in Threads, Step(t), ~ Spend(t) PROVE UNCHANGED keyProofs!vars
  BY <1>3 DEF Step, Arrive, Lookup, Throttle, VerifyStored, VerifyUnknown, Fail, failures!Look, failures!Allow,
              keyVars, keyProofs!vars
<1>4. CASE UNCHANGED vars
  BY <1>4 DEF vars, keyProofs!vars
<1> QED BY <1>1, <1>2, <1>3, <1>4 DEF Next

\* TokenBuckets is the same specification either way.
LEMMA KeyLimiterBuckets ==
  /\ keyProofs!Buckets!Init <=> perKey!Buckets!Init
  /\ [keyProofs!Buckets!Next]_keyProofs!Buckets!vars <=> [perKey!Buckets!Next]_perKey!Buckets!vars
<1>1. \A n : keyProofs!AtMost(n) = perKey!AtMost(n) /\ keyProofs!Buckets!AtMost(n) = perKey!Buckets!AtMost(n)
  BY DEF keyProofs!AtMost, perKey!AtMost, keyProofs!Buckets!AtMost, perKey!Buckets!AtMost
<1>2. \A t, key : keyProofs!Level(t, key) = perKey!Level(t, key)
  BY KeyLimiterSteps
<1>3. keyProofs!Tracked = perKey!Tracked
  BY DEF keyProofs!Tracked, perKey!Tracked
<1>4. keyProofs!Buckets!Init <=> perKey!Buckets!Init
  BY <1>1, <1>2, <1>3 DEF keyProofs!Buckets!Init, perKey!Buckets!Init
<1>5. \A S : keyProofs!Buckets!Cardinality(S) = perKey!Buckets!Cardinality(S)
  BY DEF keyProofs!Buckets!Cardinality, perKey!Buckets!Cardinality
<1>6. keyProofs!Buckets!Crowded <=> perKey!Buckets!Crowded
  BY <1>1, <1>3, <1>5 DEF keyProofs!Buckets!Crowded, perKey!Buckets!Crowded
<1>7. \A key : keyProofs!Buckets!MayForget(key) = perKey!Buckets!MayForget(key)
  BY <1>6 DEF keyProofs!Buckets!MayForget, perKey!Buckets!MayForget
<1>8. /\ keyProofs!Tracked' = perKey!Tracked'
      /\ \A key : keyProofs!Level(keyTable, key)' = perKey!Level(keyTable, key)'
  BY DEF keyProofs!Tracked, perKey!Tracked, keyProofs!Level, perKey!Level, keyProofs!AtMost, perKey!AtMost
<1>9. keyProofs!Buckets!Tick <=> perKey!Buckets!Tick
  BY <1>1, <1>2, <1>3, <1>8 DEF keyProofs!Buckets!Tick, perKey!Buckets!Tick
<1>10. \A key : keyProofs!Buckets!Allow(key) <=> perKey!Buckets!Allow(key)
  BY <1>1, <1>2, <1>3, <1>7, <1>8 DEF keyProofs!Buckets!Allow, perKey!Buckets!Allow, keyProofs!Buckets!Asked, perKey!Buckets!Asked,
     keyProofs!Buckets!HasToken, perKey!Buckets!HasToken
<1>11. \A key : keyProofs!Buckets!Look(key) <=> perKey!Buckets!Look(key)
  BY <1>1, <1>2, <1>3, <1>7, <1>8 DEF keyProofs!Buckets!Look, perKey!Buckets!Look, keyProofs!Buckets!Asked, perKey!Buckets!Asked,
     keyProofs!Buckets!HasToken, perKey!Buckets!HasToken
<1>12. keyProofs!Buckets!Next <=> perKey!Buckets!Next
  BY <1>9, <1>10, <1>11 DEF keyProofs!Buckets!Next, perKey!Buckets!Next
<1>13. UNCHANGED keyProofs!Buckets!vars <=> UNCHANGED perKey!Buckets!vars
  BY <1>1, <1>2, <1>3, <1>8 DEF keyProofs!Buckets!vars, perKey!Buckets!vars
<1> QED BY <1>4, <1>12, <1>13

(* However the requests of all threads interleave, every stored key gets what TokenBuckets       *)
(* promises: a bucket of its own that fills by itself and is forgotten only in a crowd.         *)
THEOREM StoredKeysGetTheirBuckets == Spec => KeysGetTheirBuckets
<1>1. Init => keyProofs!Init
  BY KeyLimiterSteps DEF Init
<1>2. AuthInv /\ [Next]_vars => [keyProofs!Next]_keyProofs!vars
  BY KeyLimiterNext
<1>3. Spec => keyProofs!Spec
  BY <1>1, <1>2, AuthInvariant, PTL DEF Spec, keyProofs!Spec
<1>4. keyProofs!LimiterConstants
  BY KeyLimiterSteps, AuthenticationAssumption
<1>5. keyProofs!Spec => keyProofs!Buckets!Spec
  BY <1>4, keyProofs!LimiterImplementsBuckets
<1>6. /\ keyProofs!Buckets!Init <=> perKey!Buckets!Init
      /\ [keyProofs!Buckets!Next]_keyProofs!Buckets!vars <=> [perKey!Buckets!Next]_perKey!Buckets!vars
  BY KeyLimiterBuckets
<1>7. keyProofs!Buckets!Spec => perKey!Buckets!Spec
  BY <1>6, PTL DEF keyProofs!Buckets!Spec, perKey!Buckets!Spec
<1> QED BY <1>3, <1>5, <1>7, PTL DEF KeysGetTheirBuckets


-----------------------------------------------------------------------------
\* A request is at most one step of the limiter of its client's failures.
LEMMA FailureLimiterNext ==
  ASSUME AuthInv, [Next]_vars
  PROVE  [failureProofs!Next]_failureProofs!vars
<1> USE DEF AuthInv, RequestOK
<1>1. CASE Tick
  BY <1>1 DEF Tick, failureVars, failureProofs!Next, failureProofs!Tick
<1>2. ASSUME NEW t \in Threads, Throttle(t) \/ Fail(t) PROVE failureProofs!Next
  <2>1. request[t].client \in Clients
    BY <1>2 DEF Throttle, Fail
  <2>2. failureProofs!Look(request[t].client) \/ failureProofs!Allow(request[t].client)
    BY <1>2, FailureLimiterSteps DEF Throttle, Fail
  <2> QED BY <2>1, <2>2 DEF failureProofs!Next
<1>3. ASSUME NEW t \in Threads, Step(t), ~ Throttle(t), ~ Fail(t) PROVE UNCHANGED failureProofs!vars
  BY <1>3 DEF Step, Arrive, Lookup, VerifyStored, VerifyUnknown, Spend, perKey!Allow,
              failureVars, failureProofs!vars
<1>4. CASE UNCHANGED vars
  BY <1>4 DEF vars, failureProofs!vars
<1> QED BY <1>1, <1>2, <1>3, <1>4 DEF Next

\* TokenBuckets is the same specification either way.
LEMMA FailureLimiterBuckets ==
  /\ failureProofs!Buckets!Init <=> failures!Buckets!Init
  /\ [failureProofs!Buckets!Next]_failureProofs!Buckets!vars <=> [failures!Buckets!Next]_failures!Buckets!vars
<1>1. \A n : failureProofs!AtMost(n) = failures!AtMost(n) /\ failureProofs!Buckets!AtMost(n) = failures!Buckets!AtMost(n)
  BY DEF failureProofs!AtMost, failures!AtMost, failureProofs!Buckets!AtMost, failures!Buckets!AtMost
<1>2. \A t, key : failureProofs!Level(t, key) = failures!Level(t, key)
  BY FailureLimiterSteps
<1>3. failureProofs!Tracked = failures!Tracked
  BY DEF failureProofs!Tracked, failures!Tracked
<1>4. failureProofs!Buckets!Init <=> failures!Buckets!Init
  BY <1>1, <1>2, <1>3 DEF failureProofs!Buckets!Init, failures!Buckets!Init
<1>5. \A S : failureProofs!Buckets!Cardinality(S) = failures!Buckets!Cardinality(S)
  BY DEF failureProofs!Buckets!Cardinality, failures!Buckets!Cardinality
<1>6. failureProofs!Buckets!Crowded <=> failures!Buckets!Crowded
  BY <1>1, <1>3, <1>5 DEF failureProofs!Buckets!Crowded, failures!Buckets!Crowded
<1>7. \A key : failureProofs!Buckets!MayForget(key) = failures!Buckets!MayForget(key)
  BY <1>6 DEF failureProofs!Buckets!MayForget, failures!Buckets!MayForget
<1>8. /\ failureProofs!Tracked' = failures!Tracked'
      /\ \A key : failureProofs!Level(failureTable, key)' = failures!Level(failureTable, key)'
  BY DEF failureProofs!Tracked, failures!Tracked, failureProofs!Level, failures!Level, failureProofs!AtMost, failures!AtMost
<1>9. failureProofs!Buckets!Tick <=> failures!Buckets!Tick
  BY <1>1, <1>2, <1>3, <1>8 DEF failureProofs!Buckets!Tick, failures!Buckets!Tick
<1>10. \A key : failureProofs!Buckets!Allow(key) <=> failures!Buckets!Allow(key)
  BY <1>1, <1>2, <1>3, <1>7, <1>8 DEF failureProofs!Buckets!Allow, failures!Buckets!Allow, failureProofs!Buckets!Asked, failures!Buckets!Asked,
     failureProofs!Buckets!HasToken, failures!Buckets!HasToken
<1>11. \A key : failureProofs!Buckets!Look(key) <=> failures!Buckets!Look(key)
  BY <1>1, <1>2, <1>3, <1>7, <1>8 DEF failureProofs!Buckets!Look, failures!Buckets!Look, failureProofs!Buckets!Asked, failures!Buckets!Asked,
     failureProofs!Buckets!HasToken, failures!Buckets!HasToken
<1>12. failureProofs!Buckets!Next <=> failures!Buckets!Next
  BY <1>9, <1>10, <1>11 DEF failureProofs!Buckets!Next, failures!Buckets!Next
<1>13. UNCHANGED failureProofs!Buckets!vars <=> UNCHANGED failures!Buckets!vars
  BY <1>1, <1>2, <1>3, <1>8 DEF failureProofs!Buckets!vars, failures!Buckets!vars
<1> QED BY <1>4, <1>12, <1>13

(* However the requests of all threads interleave, every client address gets what TokenBuckets  *)
(* promises for its failed attempts.                                                            *)
THEOREM FailingClientsGetTheirBuckets == Spec => ClientsGetTheirBuckets
<1>1. Init => failureProofs!Init
  BY FailureLimiterSteps DEF Init
<1>2. AuthInv /\ [Next]_vars => [failureProofs!Next]_failureProofs!vars
  BY FailureLimiterNext
<1>3. Spec => failureProofs!Spec
  BY <1>1, <1>2, AuthInvariant, PTL DEF Spec, failureProofs!Spec
<1>4. failureProofs!LimiterConstants
  BY FailureLimiterSteps, AuthenticationAssumption
<1>5. failureProofs!Spec => failureProofs!Buckets!Spec
  BY <1>4, failureProofs!LimiterImplementsBuckets
<1>6. /\ failureProofs!Buckets!Init <=> failures!Buckets!Init
      /\ [failureProofs!Buckets!Next]_failureProofs!Buckets!vars <=> [failures!Buckets!Next]_failures!Buckets!vars
  BY FailureLimiterBuckets
<1>7. failureProofs!Buckets!Spec => failures!Buckets!Spec
  BY <1>6, PTL DEF failureProofs!Buckets!Spec, failures!Buckets!Spec
<1> QED BY <1>3, <1>5, <1>7, PTL DEF ClientsGetTheirBuckets

-----------------------------------------------------------------------------
(* Types *)

\* The tables of both limiters are well formed throughout.
LEMMA TablesCorrect == Spec => [](keyProofs!TableInv /\ failureProofs!TableInv)
<1>1. Init => keyProofs!Init /\ failureProofs!Init
  BY KeyLimiterSteps, FailureLimiterSteps DEF Init
<1>2. AuthInv /\ [Next]_vars => [keyProofs!Next]_keyProofs!vars /\ [failureProofs!Next]_failureProofs!vars
  BY KeyLimiterNext, FailureLimiterNext
<1>3. Spec => keyProofs!Spec /\ failureProofs!Spec
  BY <1>1, <1>2, AuthInvariant, PTL DEF Spec, keyProofs!Spec, failureProofs!Spec
<1>4. keyProofs!LimiterConstants /\ failureProofs!LimiterConstants
  BY KeyLimiterSteps, FailureLimiterSteps, AuthenticationAssumption
<1>5. keyProofs!Spec => []keyProofs!TableInv
  BY <1>4, keyProofs!TableCorrect
<1>6. failureProofs!Spec => []failureProofs!TableInv
  BY <1>4, failureProofs!TableCorrect
<1> QED BY <1>3, <1>5, <1>6, PTL

(* Types, and the limits: both tables and the cache keep to theirs, whatever the threads        *)
(* interleave.                                                                                  *)
THEOREM TypeCorrect == Spec => []TypeOK
<1>1. AuthInv /\ keyProofs!TableInv /\ failureProofs!TableInv => TypeOK
  <2> SUFFICES ASSUME AuthInv, keyProofs!TableInv, failureProofs!TableInv PROVE TypeOK
    OBVIOUS
  <2>1. perKey!TableOK /\ failures!TableOK
    BY KeyLimiterSteps, FailureLimiterSteps DEF keyProofs!TableInv, failureProofs!TableInv
  <2>2. DOMAIN verified = 1..Len(verified)
    BY LenProperties DEF AuthInv, CacheOK
  <2>3. ASSUME NEW i \in 1..Len(verified)
        PROVE  verified[i].key \in Stored /\ verified[i].expires \in 0..(MaxTime + Ttl)
    <3>0. verified[i] \in CacheEntry
      BY ElementOfSeq DEF AuthInv, CacheOK
    <3>1. verified[i].key \in Stored
      BY <3>0 DEF CacheEntry
    <3>2. known[verified[i].key] \in 0..MaxTime /\ verified[i].expires = known[verified[i].key] + Ttl
      BY <3>1 DEF AuthInv, CacheOK, HistoryOK
    <3> QED BY <3>1, <3>2, AuthenticationAssumption
  <2>4. \A t \in Threads : request[t].at \in Steps
    BY DEF AuthInv, RequestOK, Request
  <2> QED BY <2>1, <2>2, <2>3, <2>4 DEF TypeOK, AuthInv, CacheOK, HistoryOK
<1> QED BY <1>1, AuthInvariant, TablesCorrect, PTL

-----------------------------------------------------------------------------
(* How many keys a client can guess *)

\* The requests of a client that passed the check of its failures with a key nobody stored.
Guessing(c) == {t \in Threads : /\ request[t].client = c
                                /\ request[t].at \in {"verify", "fail"}
                                /\ request[t].key \in RawKeys \ Stored}

\* Those whose key is not verified yet.
Admitted(c) == {t \in Guessing(c) : request[t].at = "verify"}

\* Tokens, in units, that are left for the failures of a client.
Left(c) == failureProofs!Level(failureTable, c)

(* Every guess of a client is paid for by a token that was taken since the start, except that   *)
(* all threads may have passed the check on the same one.  While there is a token left, each    *)
(* thread that passed the check may still pay one; once there is none, nobody will.             *)
Paid(n, full, left, tried, open) ==
  FailureCost * tried <= n * (full - left) + (IF left >= FailureCost THEN FailureCost * open ELSE 0)

\* The numbers of a client that are still counted.
GuessesPaid(c) ==
  guesses[c] # Uncounted =>
    Paid(Cardinality(Threads), FailureCapacity + now, Left(c),
         guesses[c] + Cardinality(Admitted(c)), Cardinality(Guessing(c)))

GuessInv == \A c \in Clients : GuessesPaid(c)

\* The numbers in the invariant are numbers.
LEMMA GuessTypes ==
  ASSUME AuthInv, failureProofs!TableInv, NEW c \in Clients
  PROVE  /\ Cardinality(Threads) \in Nat /\ Cardinality(Guessing(c)) \in Nat /\ Cardinality(Admitted(c)) \in Nat
         /\ IsFiniteSet(Guessing(c)) /\ IsFiniteSet(Admitted(c))
         /\ Cardinality(Guessing(c)) <= Cardinality(Threads)
         /\ Left(c) \in 0..FailureCapacity /\ now \in Nat /\ guesses[c] \in {Uncounted} \cup Nat
         /\ FailureCost \in Nat \ {0} /\ FailureCapacity \in Nat \ {0}
<1>1. IsFiniteSet(Threads) /\ FailureCost \in Nat \ {0} /\ FailureCapacity \in Nat \ {0}
  BY AuthenticationAssumption DEF failures!LimiterConstants
<1>2. Guessing(c) \in SUBSET Threads /\ Admitted(c) \in SUBSET Threads
  BY DEF Guessing, Admitted
<1>3. Left(c) \in 0..FailureCapacity
  <2>1. failureProofs!LimiterConstants
    BY FailureLimiterSteps, AuthenticationAssumption
  <2> QED BY <2>1, failureProofs!LevelType DEF Left
<1>4. now \in Nat /\ guesses[c] \in {Uncounted} \cup Nat
  BY AuthenticationAssumption DEF AuthInv, HistoryOK
<1> QED BY <1>1, <1>2, <1>3, <1>4, FS_Subset, FS_CardinalityType

\* What a step of a thread does to the requests of a client.
LEMMA GuessingAfter ==
  ASSUME AuthInv, failureProofs!TableInv, NEW t \in Threads, Step(t), NEW c \in Clients
  PROVE  /\ VerifyUnknown(t) /\ request[t].client = c =>
              /\ Cardinality(Guessing(c))' = Cardinality(Guessing(c))
              /\ Cardinality(Admitted(c))' = Cardinality(Admitted(c)) - 1
         /\ Throttle(t) /\ request[t].client = c =>
              \/ UNCHANGED <<Guessing(c), Admitted(c)>>
              \/ /\ failureAnswer'.yes
                 /\ Cardinality(Guessing(c))' = Cardinality(Guessing(c)) + 1
                 /\ Cardinality(Admitted(c))' = Cardinality(Admitted(c)) + 1
         /\ Fail(t) /\ request[t].client = c =>
              /\ UNCHANGED Admitted(c)
              /\ \/ UNCHANGED Guessing(c)
                 \/ Cardinality(Guessing(c))' = Cardinality(Guessing(c)) - 1
         /\ ~ ((VerifyUnknown(t) \/ Throttle(t) \/ Fail(t)) /\ request[t].client = c) =>
              UNCHANGED <<Guessing(c), Admitted(c)>>
<1>0. /\ request \in [Threads -> Request] /\ request[t] \in Request
      /\ IsFiniteSet(Guessing(c)) /\ IsFiniteSet(Admitted(c))
      /\ Cardinality(Guessing(c)) \in Nat /\ Cardinality(Admitted(c)) \in Nat
      /\ NoKey \notin RawKeys
  BY GuessTypes, AuthenticationAssumption DEF AuthInv, RequestOK
<1>1. \A u \in Threads \ {t} : request'[u] = request[u]
  BY <1>0 DEF Step, Arrive, Lookup, Throttle, VerifyStored, VerifyUnknown, Spend, Fail, Goto, Answer
<1>2. \A step : Goto(t, step) => /\ request'[t].at = step /\ request'[t].client = request[t].client
                                 /\ request'[t].key = request[t].key
  BY <1>0 DEF Goto, Request
<1>3. Answer(t) => request'[t] = Idle
  BY <1>0 DEF Answer
<1>4. CASE VerifyUnknown(t)
  <2>1. /\ request[t].at = "verify" /\ request[t].key \in RawKeys \ Stored
        /\ request'[t].at = "fail" /\ request'[t].client = request[t].client /\ request'[t].key = request[t].key
    BY <1>2, <1>4 DEF VerifyUnknown, AuthInv, RequestOK
  <2>2. CASE request[t].client = c
    <3>1. Guessing(c)' = Guessing(c) /\ t \in Admitted(c) /\ Admitted(c)' = Admitted(c) \ {t}
      BY <1>1, <2>1, <2>2 DEF Guessing, Admitted
    <3>2. Cardinality(Admitted(c))' = Cardinality(Admitted(c)) - 1
      BY <1>0, <3>1, FS_RemoveElement
    <3> QED BY <1>4, <2>1, <2>2, <3>1, <3>2 DEF Throttle, Fail
  <2>3. CASE request[t].client # c
    <3>1. Guessing(c)' = Guessing(c) /\ Admitted(c)' = Admitted(c)
      BY <1>1, <2>1, <2>3 DEF Guessing, Admitted
    <3> QED BY <2>3, <3>1
  <2> QED BY <2>2, <2>3
<1>5. CASE Throttle(t)
  <2>0. request[t].at = "throttle" /\ t \notin Guessing(c) /\ t \notin Admitted(c)
    BY <1>5 DEF Throttle, Guessing, Admitted
  <2>1. CASE /\ failureAnswer'.yes /\ request[t].key \in RawKeys \ Stored /\ request[t].client = c
    <3>1. request'[t].at = "verify" /\ request'[t].client = c /\ request'[t].key = request[t].key
      BY <1>0, <1>2, <1>5, <2>1 DEF Throttle
    <3>2. Guessing(c)' = Guessing(c) \cup {t} /\ Admitted(c)' = Admitted(c) \cup {t}
      BY <1>1, <2>1, <3>1 DEF Guessing, Admitted
    <3>3. /\ Cardinality(Guessing(c))' = Cardinality(Guessing(c)) + 1
          /\ Cardinality(Admitted(c))' = Cardinality(Admitted(c)) + 1
      BY <1>0, <2>0, <3>2, FS_AddElement
    <3>4. ~ (VerifyUnknown(t) \/ Fail(t))
      BY <2>0 DEF VerifyUnknown, Fail
    <3> QED BY <1>5, <2>1, <3>3, <3>4
  <2>2. CASE ~ (failureAnswer'.yes /\ request[t].key \in RawKeys \ Stored /\ request[t].client = c)
    <3>1. ~ failureAnswer'.yes => request'[t] = Idle
      BY <1>3, <1>5 DEF Throttle
    <3>2. failureAnswer'.yes => /\ request'[t].client = request[t].client /\ request'[t].key = request[t].key
      BY <1>2, <1>5 DEF Throttle
    <3>3. ~ /\ request'[t].at \in {"verify", "fail"} /\ request'[t].key \in RawKeys \ Stored
            /\ request'[t].client = c
      BY <2>2, <3>1, <3>2 DEF Idle
    <3>4. Guessing(c)' = Guessing(c) /\ Admitted(c)' = Admitted(c)
      BY <1>1, <2>0, <3>3 DEF Guessing, Admitted
    <3> QED BY <2>0, <3>4 DEF VerifyUnknown, Fail
  <2> QED BY <2>1, <2>2
<1>6. CASE Fail(t)
  <2>1. request[t].at = "fail" /\ request'[t] = Idle
    BY <1>3, <1>6 DEF Fail
  <2>2. Admitted(c)' = Admitted(c) /\ Guessing(c)' = Guessing(c) \ {t}
    BY <1>1, <2>1 DEF Guessing, Admitted, Idle
  <2>3. t \in Guessing(c) => Cardinality(Guessing(c))' = Cardinality(Guessing(c)) - 1
    BY <1>0, <2>2, FS_RemoveElement
  <2>4. t \notin Guessing(c) => Guessing(c)' = Guessing(c)
    BY <2>2
  <2>5. request[t].client # c => t \notin Guessing(c)
    BY DEF Guessing
  <2>6. ~ (VerifyUnknown(t) \/ Throttle(t))
    BY <2>1 DEF VerifyUnknown, Throttle
  <2>7. Guessing(c)' = Guessing(c) \/ Cardinality(Guessing(c))' = Cardinality(Guessing(c)) - 1
    BY <2>3, <2>4
  <2>8. request[t].client # c => Guessing(c)' = Guessing(c)
    BY <2>4, <2>5
  <2> QED BY <1>6, <2>2, <2>6, <2>7, <2>8
<1>7. CASE Arrive(t) \/ Lookup(t) \/ VerifyStored(t) \/ Spend(t)
  <2>1. t \notin Guessing(c)
    BY <1>7 DEF Arrive, Lookup, VerifyStored, Spend, Guessing
  <2>2. ~ (request'[t].at \in {"verify", "fail"})
    <3>1. CASE Arrive(t)
      BY <1>0, <3>1 DEF Arrive
    <3>2. CASE Lookup(t) \/ VerifyStored(t)
      BY <1>2, <3>2 DEF Lookup, VerifyStored
    <3>3. CASE Spend(t)
      BY <1>3, <3>3 DEF Spend, Idle
    <3> QED BY <1>7, <3>1, <3>2, <3>3
  <2>3. Guessing(c)' = Guessing(c) /\ Admitted(c)' = Admitted(c)
    BY <1>1, <2>1, <2>2 DEF Guessing, Admitted
  <2>4. ~ (VerifyUnknown(t) \/ Throttle(t) \/ Fail(t))
    BY <1>7 DEF Arrive, Lookup, VerifyStored, Spend, VerifyUnknown, Throttle, Fail
  <2> QED BY <2>3, <2>4
<1> QED BY <1>4, <1>5, <1>6, <1>7 DEF Step

\* Products, taken apart.
LEMMA Products ==
  /\ \A a, b, c \in Int : a * (b + c) = a * b + a * c
  /\ \A a, b, c \in Nat : b <= c => a * b <= a * c /\ b * a <= c * a
  /\ \A a, b \in Int : a * b \in Int /\ a * b = b * a
  /\ \A a, b \in Nat : a * b \in Nat
  /\ \A a \in Int : a * 1 = a /\ 1 * a = a
<1>1. \A a, b, c \in Int : a * (b + c) = a * b + a * c
  OBVIOUS
<1>2. \A a, b \in Int : a * b \in Int /\ a * b = b * a
  OBVIOUS
<1>3. \A a, b \in Nat : a * b \in Nat
  OBVIOUS
<1>4. \A a, b, c \in Nat : b <= c => a * b <= a * c
  <2> TAKE a, b, c \in Nat
  <2> HAVE b <= c
  <2>1. c - b \in Nat /\ c = b + (c - b)
    OBVIOUS
  <2>2. a * c = a * b + a * (c - b) /\ a * (c - b) \in Nat /\ a * b \in Nat
    BY <1>1, <1>3, <2>1
  <2> QED BY <2>2
<1>5. \A a, b, c \in Nat : b <= c => b * a <= c * a
  BY <1>2, <1>4
<1>6. \A a \in Int : a * 1 = a /\ 1 * a = a
  OBVIOUS
<1> QED BY <1>1, <1>2, <1>3, <1>4, <1>5, <1>6

\* A thread that is let in on a token may use it up; a token that is used up pays for all threads.
LEMMA PaidSteps ==
  ASSUME FailureCost \in Nat \ {0}, NEW n \in Nat, NEW full \in Nat, NEW left \in Nat, left <= full,
         NEW tried \in Nat, NEW open \in Nat, open <= n, Paid(n, full, left, tried, open)
  PROVE  /\ left >= FailureCost => Paid(n, full, left, tried + 1, open + 1)
         /\ left < FailureCost => \A k \in Nat : Paid(n, full, left, tried, k)
         /\ left >= FailureCost /\ n # 0 =>
              \A k \in Nat : open <= k + 1 => Paid(n, full, left - FailureCost, tried, k)
         /\ Paid(n, full + 1, left, tried, open)
         /\ Paid(n, full + 1, left + 1, tried, open)
<1> DEFINE owed == FailureCost * tried
           spent == n * (full - left)
<1>0. FailureCost \in Nat /\ full - left \in Nat
  OBVIOUS
<1>1. owed \in Nat /\ spent \in Nat /\ FailureCost * open \in Nat
  BY <1>0, Products
<1>2. owed <= spent + (IF left >= FailureCost THEN FailureCost * open ELSE 0)
  BY DEF Paid
<1>3. /\ FailureCost * (tried + 1) = owed + FailureCost
      /\ FailureCost * (open + 1) = FailureCost * open + FailureCost
  BY <1>0, Products
<1>4. ASSUME left >= FailureCost PROVE Paid(n, full, left, tried + 1, open + 1)
  <2> HIDE DEF owed, spent
  <2>1. owed + FailureCost <= spent + (FailureCost * open + FailureCost)
    BY <1>1, <1>2, <1>4
  <2> QED BY <1>3, <1>4, <2>1 DEF Paid, spent
<1>5. ASSUME left < FailureCost, NEW k \in Nat PROVE Paid(n, full, left, tried, k)
  <2>1. ~ (left >= FailureCost)
    BY <1>0, <1>5
  <2> QED BY <1>2, <2>1 DEF Paid
<1>6. ASSUME left >= FailureCost, n # 0, NEW k \in Nat, open <= k + 1
      PROVE  Paid(n, full, left - FailureCost, tried, k)
  <2>1. full - (left - FailureCost) = (full - left) + FailureCost
    BY <1>0
  <2>2. n * (full - (left - FailureCost)) = spent + n * FailureCost /\ n * FailureCost \in Nat
    BY <1>0, <2>1, Products
  <2>3. FailureCost * open <= n * FailureCost
    BY <1>0, Products
  <2>4. FailureCost <= n * FailureCost
    <3>1. 1 <= n /\ 1 \in Nat
      BY <1>6
    <3>2. 1 * FailureCost <= n * FailureCost
      BY <1>0, <3>1, Products
    <3> QED BY <1>0, <3>2, Products
  <2>5. FailureCost * open <= FailureCost * k + FailureCost /\ FailureCost * k \in Nat
    <3>1. FailureCost * open <= FailureCost * (k + 1)
      <4>1. k + 1 \in Nat
        OBVIOUS
      <4> QED BY <1>0, <1>6, <4>1, Products
    <3>2. FailureCost * (k + 1) = FailureCost * k + FailureCost /\ FailureCost * k \in Nat
      BY <1>0, Products
    <3> QED BY <3>1, <3>2
  <2> HIDE DEF owed, spent
  <2>6. CASE left - FailureCost >= FailureCost
    <3>1. owed <= (spent + n * FailureCost) + FailureCost * k
      BY <1>0, <1>1, <1>2, <1>6, <2>2, <2>4, <2>5
    <3> QED BY <2>2, <2>6, <3>1 DEF Paid, owed
  <2>7. CASE ~ (left - FailureCost >= FailureCost)
    <3>1. owed <= (spent + n * FailureCost) + 0
      BY <1>0, <1>1, <1>2, <1>6, <2>2, <2>3
    <3> QED BY <2>2, <2>7, <3>1 DEF Paid, owed
  <2> QED BY <2>6, <2>7
<1>7. Paid(n, full + 1, left, tried, open)
  <2>1. full + 1 - left = (full - left) + 1
    BY <1>0
  <2>2. n * (full + 1 - left) = spent + n
    BY <1>0, <2>1, Products
  <2> HIDE DEF owed, spent
  <2>3. owed <= (spent + n) + (IF left >= FailureCost THEN FailureCost * open ELSE 0)
    BY <1>1, <1>2
  <2> QED BY <2>2, <2>3 DEF Paid, owed
<1>8. Paid(n, full + 1, left + 1, tried, open)
  <2>1. full + 1 - (left + 1) = full - left
    BY <1>0
  <2>2. owed <= spent + (IF left + 1 >= FailureCost THEN FailureCost * open ELSE 0)
    <3> HIDE DEF owed, spent
    <3> QED BY <1>0, <1>1, <1>2
  <2> QED BY <2>1, <2>2 DEF Paid
<1> QED BY <1>4, <1>5, <1>6, <1>7, <1>8

\* What a step does to the tokens a client has left, as long as its failures are remembered.
LEMMA LeftAfter ==
  ASSUME AuthInv, failureProofs!TableInv, [Next]_vars, NEW c \in Clients, guesses'[c] # Uncounted
  PROVE  /\ Tick => Left(c)' = (IF Left(c) + 1 < FailureCapacity THEN Left(c) + 1 ELSE FailureCapacity)
         /\ ~ Tick /\ (\A t \in Threads : ~ Fail(t)) => Left(c)' = Left(c)
         /\ \A t \in Threads : Throttle(t) /\ request[t].client = c =>
              (failureAnswer'.yes <=> Left(c) >= FailureCost)
         /\ \A t \in Threads : Fail(t) =>
              Left(c)' = Left(c) - (IF request[t].client = c /\ Left(c) >= FailureCost THEN FailureCost ELSE 0)
<1>1. failureProofs!LimiterConstants
  BY FailureLimiterSteps, AuthenticationAssumption
<1>2. Counted => failureProofs!Kept(c)
  BY DEF Counted, Forgiven, failureProofs!Kept, failures!Tracked, failureProofs!Tracked, failures!FullByNow,
         failureProofs!FullByNow
<1>3. /\ Left(c) \in 0..FailureCapacity
      /\ \A key \in Clients : failureProofs!Look(key) => (failureAnswer'.yes <=> Left(key) >= FailureCost)
      /\ \A key \in Clients : failureProofs!Look(key) /\ Counted => Left(c)' = Left(c)
      /\ \A key \in Clients : failureProofs!Allow(key) /\ Counted =>
           Left(c)' = Left(c) - (IF c = key /\ Left(key) >= FailureCost THEN FailureCost ELSE 0)
      /\ failureProofs!Tick => Left(c)' = failureProofs!AtMost(Left(c) + 1)
  BY <1>1, <1>2, failureProofs!KeptSteps DEF Left
<1>4. \A t \in Threads : Throttle(t) =>
        request[t].client \in Clients /\ failureProofs!Look(request[t].client) /\ Counted
  BY FailureLimiterSteps DEF Throttle, AuthInv, RequestOK
<1>5. \A t \in Threads : Fail(t) =>
        request[t].client \in Clients /\ failureProofs!Allow(request[t].client) /\ Counted
  BY FailureLimiterSteps DEF Fail, AuthInv, RequestOK
<1>6. ASSUME Tick PROVE failureProofs!Tick
  BY <1>6 DEF Tick, failureVars, failureProofs!Tick
<1>7. ASSUME UNCHANGED <<failureTable, now>> PROVE Left(c)' = Left(c)
  BY <1>7 DEF Left, failureProofs!Level, failureProofs!AtMost
<1>8. ASSUME ~ Tick, \A t \in Threads : ~ Fail(t) PROVE Left(c)' = Left(c)
  <2>1. ASSUME NEW t \in Threads, Throttle(t) PROVE Left(c)' = Left(c)
    BY <1>3, <1>4, <2>1
  <2>2. ASSUME NEW t \in Threads, Step(t), ~ Throttle(t) PROVE UNCHANGED <<failureTable, now>>
    BY <1>8, <2>2 DEF Step, Arrive, Lookup, VerifyStored, VerifyUnknown, Spend, perKey!Allow, failureVars
  <2>3. CASE UNCHANGED vars
    BY <1>7, <2>3 DEF vars
  <2> QED BY <1>7, <1>8, <2>1, <2>2, <2>3 DEF Next
<1>9. ASSUME Tick PROVE Left(c)' = (IF Left(c) + 1 < FailureCapacity THEN Left(c) + 1 ELSE FailureCapacity)
  BY <1>3, <1>6, <1>9 DEF failureProofs!AtMost
<1>10. ASSUME NEW t \in Threads, Throttle(t), request[t].client = c
       PROVE  failureAnswer'.yes <=> Left(c) >= FailureCost
  BY <1>3, <1>4, <1>10
<1>11. ASSUME NEW t \in Threads, Fail(t)
       PROVE  Left(c)' = Left(c) - (IF request[t].client = c /\ Left(c) >= FailureCost THEN FailureCost ELSE 0)
  BY <1>3, <1>5, <1>11
<1> QED BY <1>8, <1>9, <1>10, <1>11

\* What a step of a thread does to the number of a client's guesses that is counted after it.
LEMMA GuessesAfter ==
  ASSUME AuthInv, NEW t \in Threads, Step(t), NEW c \in Clients, guesses'[c] # Uncounted
  PROVE  /\ guesses[c] \in Nat
         /\ VerifyUnknown(t) /\ request[t].client = c => guesses'[c] = guesses[c] + 1
         /\ ~ (VerifyUnknown(t) /\ request[t].client = c) => guesses'[c] = guesses[c]
<1>1. guesses \in [Clients -> {Uncounted} \cup Nat]
  BY DEF AuthInv, HistoryOK
<1>2. CASE VerifyUnknown(t)
  BY <1>1, <1>2 DEF VerifyUnknown
<1>3. CASE ~ VerifyUnknown(t)
  <2>1. guesses'[c] = guesses[c]
    <3>1. CASE Throttle(t) \/ Fail(t)
      BY <3>1 DEF Throttle, Fail, Counted
    <3>2. CASE Arrive(t) \/ Lookup(t) \/ VerifyStored(t) \/ Spend(t)
      BY <3>2 DEF Arrive, Lookup, VerifyStored, Spend, history
    <3> QED BY <1>3, <3>1, <3>2 DEF Step
  <2> QED BY <1>1, <1>3, <2>1
<1> QED BY <1>2, <1>3

\* A request that finds a token may guess; one that fails pays with the token that is left.
LEMMA StepGuesses ==
  ASSUME AuthInv, failureProofs!TableInv, NEW t \in Threads, Step(t), NEW c \in Clients, GuessesPaid(c)
  PROVE  GuessesPaid(c)'
<1> DEFINE n == Cardinality(Threads)
           full == FailureCapacity + now
           left == Left(c)
           admitted == Cardinality(Admitted(c))
           open == Cardinality(Guessing(c))
           tried == guesses[c] + admitted
<1> SUFFICES ASSUME guesses'[c] # Uncounted
             PROVE  Paid(n, full, left, tried, open)'
  BY DEF GuessesPaid
<1>0. [Next]_vars /\ ~ Tick
  <2>1. now' = now
    BY DEF Step, Arrive, Lookup, Throttle, VerifyStored, VerifyUnknown, Spend, Fail, failures!Look, failures!Allow,
           perKey!Allow
  <2>2. now \in Nat
    BY GuessTypes
  <2> QED BY <2>1, <2>2 DEF Next, Tick
<1>1. /\ n \in Nat /\ full \in Nat /\ left \in Nat /\ left <= full /\ admitted \in Nat /\ tried \in Nat /\ open \in Nat
      /\ open <= n /\ guesses[c] \in Nat /\ FailureCost \in Nat \ {0} /\ Paid(n, full, left, tried, open)
  <2>1. guesses[c] \in Nat /\ guesses[c] # Uncounted
    BY GuessesAfter DEF Uncounted
  <2> QED BY <2>1, GuessTypes DEF GuessesPaid
<1>2. full' = full
  BY DEF Step, Arrive, Lookup, Throttle, VerifyStored, VerifyUnknown, Spend, Fail, failures!Look, failures!Allow,
         perKey!Allow
<1>3. n # 0
  <2>1. Threads # {} /\ IsFiniteSet(Threads)
    BY AuthenticationAssumption
  <2> QED BY <2>1, FS_EmptySet
<1>4. SUFFICES Paid(n, full, left', tried', open')
  BY <1>2
<1>5. CASE VerifyUnknown(t) /\ request[t].client = c
  <2>1. open' = open /\ admitted' = admitted - 1
    BY <1>5, GuessingAfter
  <2>2. guesses[c]' = guesses[c] + 1
    BY <1>5, GuessesAfter
  <2>3. left' = left
    <3>1. \A u \in Threads : ~ Fail(u)
      <4> SUFFICES ASSUME NEW u \in Threads, Fail(u) PROVE FALSE
        OBVIOUS
      <4>1. request'[u] = Idle /\ request[u].at = "fail"
        BY DEF Fail, Answer, AuthInv, RequestOK
      <4>2. request'[t].at = "fail" /\ (u # t => request'[u] = request[u])
        BY <1>5 DEF VerifyUnknown, Goto, AuthInv, RequestOK, Request
      <4> QED BY <4>1, <4>2 DEF Idle
    <3> QED BY <1>0, <3>1, LeftAfter
  <2>4. tried' = tried
    BY <1>1, <2>1, <2>2
  <2> HIDE DEF n, full, left, open, tried
  <2> QED BY <1>1, <2>1, <2>3, <2>4
<1>6. CASE Throttle(t) /\ request[t].client = c
  <2>1. guesses'[c] = guesses[c]
    BY <1>6, GuessesAfter DEF Throttle, VerifyUnknown
  <2>2. left' = left
    <3>1. \A u \in Threads : ~ Fail(u)
      <4> SUFFICES ASSUME NEW u \in Threads, Fail(u) PROVE FALSE
        OBVIOUS
      <4>1. request'[u] = Idle /\ request[u].at = "fail"
        BY DEF Fail, Answer, AuthInv, RequestOK
      <4>2. request[t].at = "throttle" /\ request'[u] = request[u]
        BY <1>6, <4>1 DEF Throttle, Goto, Answer, AuthInv, RequestOK
      <4> QED BY <4>1, <4>2 DEF Idle
    <3> QED BY <1>0, <3>1, LeftAfter
  <2>3. CASE UNCHANGED <<Guessing(c), Admitted(c)>>
    <3>1. open' = open /\ tried' = tried
      BY <2>1, <2>3
    <3> HIDE DEF n, full, left, open, tried
    <3> QED BY <1>1, <2>2, <3>1
  <2>4. CASE failureAnswer'.yes /\ open' = open + 1 /\ admitted' = admitted + 1
    <3>1. left >= FailureCost
      BY <1>0, <1>6, <2>4, LeftAfter
    <3>2. open' = open + 1 /\ tried' = tried + 1
      BY <1>1, <2>1, <2>4
    <3> HIDE DEF n, full, left, open, tried
    <3> QED BY <1>1, <2>2, <3>1, <3>2, PaidSteps
  <2> QED BY <1>6, <2>3, <2>4, GuessingAfter
<1>7. CASE Fail(t) /\ request[t].client = c
  <2>1. guesses'[c] = guesses[c]
    BY <1>7, GuessesAfter DEF Fail, VerifyUnknown
  <2>2. Admitted(c)' = Admitted(c) /\ (Guessing(c)' = Guessing(c) \/ open' = open - 1)
    BY <1>7, GuessingAfter
  <2>3. tried' = tried
    BY <2>1, <2>2
  <2>4. open' \in Nat /\ open <= open' + 1
    <3>1. open' = open \/ open' = open - 1
      BY <2>2
    <3>2. open' \in Nat
      <4>1. Guessing(c)' \in SUBSET Threads
        BY DEF Guessing
      <4>2. IsFiniteSet(Threads)
        BY AuthenticationAssumption
      <4> QED BY <4>1, <4>2, FS_Subset, FS_CardinalityType
    <3>3. open \in Int
      BY <1>1
    <3>4. \A i, j \in Int : (i = j \/ i = j - 1) => j <= i + 1
      OBVIOUS
    <3>5. open <= open' + 1
      BY <3>1, <3>2, <3>3, <3>4
    <3> QED BY <3>2, <3>5
  <2>5. left' = left - (IF left >= FailureCost THEN FailureCost ELSE 0)
    BY <1>0, <1>7, LeftAfter
  <2> HIDE DEF n, full, left, open, tried
  <2>6. CASE left >= FailureCost
    BY <1>1, <1>3, <2>3, <2>4, <2>5, <2>6, PaidSteps
  <2>7. CASE left < FailureCost
    <3>1. left' = left
      BY <1>1, <2>5, <2>7
    <3> QED BY <1>1, <2>3, <2>4, <2>7, <3>1, PaidSteps
  <2> QED BY <1>1, <2>6, <2>7
<1>8. CASE ~ ((VerifyUnknown(t) \/ Throttle(t) \/ Fail(t)) /\ request[t].client = c)
  <2>1. Guessing(c)' = Guessing(c) /\ Admitted(c)' = Admitted(c)
    BY <1>8, GuessingAfter
  <2>2. guesses'[c] = guesses[c]
    BY <1>8, GuessesAfter
  <2>3. left' = left
    <3>1. CASE \A u \in Threads : ~ Fail(u)
      BY <1>0, <3>1, LeftAfter
    <3>2. ASSUME NEW u \in Threads, Fail(u) PROVE left' = left
      <4>1. u = t
        <5>1. request'[u] = Idle /\ request[u].at = "fail"
          BY <3>2 DEF Fail, Answer, AuthInv, RequestOK
        <5>2. \A v \in Threads \ {t} : request'[v] = request[v]
          BY DEF Step, Arrive, Lookup, Throttle, VerifyStored, VerifyUnknown, Spend, Fail, Goto, Answer, AuthInv,
                 RequestOK
        <5> QED BY <5>1, <5>2 DEF Idle
      <4>2. request[t].client # c
        BY <1>8, <3>2, <4>1
      <4>3. left' = left - 0
        BY <1>0, <3>2, <4>1, <4>2, LeftAfter
      <4> HIDE DEF left
      <4> QED BY <1>1, <4>3
    <3> QED BY <3>1, <3>2
  <2>4. open' = open /\ tried' = tried
    BY <2>1, <2>2
  <2> HIDE DEF n, full, left, open, tried
  <2> QED BY <1>1, <2>3, <2>4
<1> QED BY <1>5, <1>6, <1>7, <1>8

\* Every step keeps what each client's guesses may cost.
LEMMA NextGuesses ==
  ASSUME AuthInv, failureProofs!TableInv, GuessInv, [Next]_vars
  PROVE  GuessInv'
<1> SUFFICES ASSUME NEW c \in Clients PROVE GuessesPaid(c)'
  BY DEF GuessInv
<1>0. GuessesPaid(c)
  BY DEF GuessInv
<1>1. ASSUME NEW t \in Threads, Step(t) PROVE GuessesPaid(c)'
  BY <1>0, <1>1, StepGuesses
<1>2. CASE UNCHANGED vars
  BY <1>0, <1>2 DEF vars, GuessesPaid, Paid, Left, failureProofs!Level, failureProofs!AtMost, Admitted, Guessing
<1>3. CASE Tick
  <2> DEFINE n == Cardinality(Threads)
             full == FailureCapacity + now
             left == Left(c)
             open == Cardinality(Guessing(c))
             tried == guesses[c] + Cardinality(Admitted(c))
  <2> SUFFICES ASSUME guesses'[c] # Uncounted
               PROVE  Paid(n, full, left, tried, open)'
    BY DEF GuessesPaid
  <2>0. guesses' = guesses
    BY <1>3 DEF Tick, history
  <2>1. /\ n \in Nat /\ full \in Nat /\ left \in Nat /\ left <= full /\ left <= FailureCapacity /\ tried \in Nat
        /\ open \in Nat /\ open <= n /\ FailureCost \in Nat \ {0} /\ Paid(n, full, left, tried, open)
    BY <1>0, <2>0, GuessTypes DEF GuessesPaid
  <2>2. now' = now + 1 /\ full' = full + 1
    <3>1. now \in Nat /\ FailureCapacity \in Nat
      BY GuessTypes
    <3> QED BY <1>3, <3>1 DEF Tick
  <2>3. open' = open /\ tried' = tried
    BY <1>3 DEF Tick, Guessing, Admitted, history
  <2>4. left' = (IF left + 1 < FailureCapacity THEN left + 1 ELSE FailureCapacity)
    BY <1>3, LeftAfter
  <2>5. left' = left + 1 \/ left' = left
    <3>1. FailureCapacity \in Nat
      BY GuessTypes
    <3>2. \A i, j, k \in Nat : i <= k /\ j = (IF i + 1 < k THEN i + 1 ELSE k) => j = i + 1 \/ j = i
      OBVIOUS
    <3>3. left' \in Nat
      BY <2>1, <2>4, <3>1
    <3> QED BY <2>1, <2>4, <3>1, <3>2, <3>3
  <2>6. SUFFICES Paid(n, full', left', tried', open')
    OBVIOUS
  <2> HIDE DEF n, full, left, open, tried
  <2>7. Paid(n, full + 1, left, tried, open) /\ Paid(n, full + 1, left + 1, tried, open)
    BY <2>1, PaidSteps
  <2> QED BY <2>2, <2>3, <2>5, <2>7
<1> QED BY <1>1, <1>2, <1>3 DEF Next

\* Nobody has guessed before the first request.
LEMMA InitGuesses ==
  ASSUME Init
  PROVE  GuessInv
<1> SUFFICES ASSUME NEW c \in Clients PROVE GuessesPaid(c)
  BY DEF GuessInv
<1>1. guesses[c] = 0 /\ now = 0 /\ Guessing(c) = {} /\ Admitted(c) = {}
  BY DEF Init, failures!Init, Guessing, Admitted, Idle
<1>2. Left(c) = FailureCapacity
  BY DEF Init, failures!Init, Left, failureProofs!Level
<1>3. Cardinality(Admitted(c)) = 0 /\ Cardinality(Guessing(c)) = 0
  BY <1>1, FS_EmptySet
<1>4. Cardinality(Threads) \in Nat /\ FailureCost \in Nat /\ FailureCapacity \in Nat
  BY FS_CardinalityType, AuthenticationAssumption DEF failures!LimiterConstants
<1>5. FailureCost * 0 = 0 /\ FailureCapacity + 0 - FailureCapacity = 0 /\ Cardinality(Threads) * 0 = 0
  BY <1>4
<1> QED BY <1>1, <1>2, <1>3, <1>4, <1>5 DEF GuessesPaid, Paid

\* What the guesses may cost bounds them: no more threads are on their way than there are.
LEMMA PaidBounds ==
  ASSUME AuthInv, failureProofs!TableInv, GuessInv
  PROVE  GuessesBounded
<1> SUFFICES ASSUME NEW c \in Clients, guesses[c] # Uncounted
             PROVE  guesses[c] * FailureCost <= Cardinality(Threads) * (FailureCapacity + now)
  BY DEF GuessesBounded
<1> DEFINE n == Cardinality(Threads)
           full == FailureCapacity + now
           left == Left(c)
           open == Cardinality(Guessing(c))
           wrong == guesses[c]
           admitted == Cardinality(Admitted(c))
<1>1. /\ n \in Nat /\ full \in Nat /\ left \in Nat /\ left <= full /\ wrong \in Nat /\ admitted \in Nat
      /\ open \in Nat /\ open <= n /\ FailureCost \in Nat /\ Paid(n, full, left, wrong + admitted, open)
  BY GuessTypes DEF GuessInv, GuessesPaid
<1>2. SUFFICES wrong * FailureCost <= n * full
  OBVIOUS
<1> HIDE DEF n, full, left, open, wrong, admitted
<1>3. FailureCost * (wrong + admitted) = FailureCost * wrong + FailureCost * admitted
  BY <1>1, Products
<1>4. FailureCost * wrong = wrong * FailureCost /\ wrong * FailureCost \in Nat /\ FailureCost * admitted \in Nat
  BY <1>1, Products
<1>5. n * full = n * (full - left) + n * left /\ n * (full - left) \in Nat /\ n * left \in Nat
  <2>1. full = (full - left) + left /\ full - left \in Nat
    BY <1>1
  <2>2. n * ((full - left) + left) = n * (full - left) + n * left
    BY <1>1, <2>1, Products
  <2> QED BY <1>1, <2>1, <2>2, Products
<1>6. left >= FailureCost => FailureCost * open <= n * left
  <2> SUFFICES ASSUME left >= FailureCost PROVE FailureCost * open <= n * left
    OBVIOUS
  <2>1. FailureCost * open <= FailureCost * n
    BY <1>1, Products
  <2>2. FailureCost * n = n * FailureCost
    BY <1>1, Products
  <2>3. n * FailureCost <= n * left
    BY <1>1, Products
  <2>4. FailureCost * open \in Nat /\ n * FailureCost \in Nat /\ n * left \in Nat
    BY <1>1, Products
  <2> QED BY <2>1, <2>2, <2>3, <2>4
<1>7. FailureCost * (wrong + admitted) <= n * (full - left) + (IF left >= FailureCost THEN FailureCost * open ELSE 0)
  BY <1>1 DEF Paid
<1>8. FailureCost * open \in Nat
  BY <1>1, Products
<1> QED BY <1>3, <1>4, <1>5, <1>6, <1>7, <1>8

(* However many threads check a client's failures before one of them pays, a client address     *)
(* whose failures a full table never forgot cannot make more guesses than the tokens its bucket *)
(* has ever held, times the threads.                                                            *)
THEOREM GuessesStayBounded == Spec => []GuessesBounded
<1>1. Init => GuessInv
  BY InitGuesses
<1>2. AuthInv /\ failureProofs!TableInv /\ GuessInv /\ [Next]_vars => GuessInv'
  BY NextGuesses
<1>3. AuthInv /\ failureProofs!TableInv /\ GuessInv => GuessesBounded
  BY PaidBounds
<1> QED BY <1>1, <1>2, <1>3, AuthInvariant, TablesCorrect, PTL DEF Spec
=============================================================================
