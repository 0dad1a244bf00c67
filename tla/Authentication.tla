--------------------------- MODULE Authentication ---------------------------
(* get_principal of apps/api/neuroforge_api/auth.py, run by the threads of the  *)
(* API's pool: the cache of recently verified keys, the limiter of each stored  *)
(* key and the limiter of each client address's failed attempts.  Each of the   *)
(* three has a lock of its own, so a request takes them one after the other.    *)
EXTENDS Integers, Sequences, FiniteSets, SequencesExt

CONSTANTS
  Threads, Clients,
  RawKeys,       \* keys a request may carry
  Stored,        \* those with an ApiKeyRecord
  NoKey,         \* no X-API-Key header
  Requests,      \* the requests that come: pairs of a client and what it sends
  KeyCapacity, KeyCost,            \* _rate_limiter, in ticks
  FailureCapacity, FailureCost,    \* _failure_limiter
  MaxTracked,    \* MAX_TRACKED_KEYS
  Ttl,           \* _VERIFIED_TTL_SECONDS
  MaxEntries,    \* _VERIFIED_MAX_ENTRIES
  MaxTime        \* bound: ticks TLC looks at

VARIABLES
  now,
  keyTable, keyAnswer,          \* _rate_limiter
  failureTable, failureAnswer,  \* _failure_limiter
  verified,   \* _verified: a sequence of [key, expires] in the order of the dict
  request,    \* what each thread is doing
  known,      \* history: when each key was last verified in full; Never once a full cache lost it
  guesses     \* history: how many wrong keys of each client were verified in full; Uncounted
              \* once a full table lost its failures

vars == <<now, keyTable, keyAnswer, failureTable, failureAnswer, verified, request, known, guesses>>

keyVars == <<keyTable, keyAnswer>>
failureVars == <<failureTable, failureAnswer>>
history == <<known, guesses>>

perKey == INSTANCE RateLimiter WITH
  Keys <- Stored, Capacity <- KeyCapacity, Cost <- KeyCost, table <- keyTable, answer <- keyAnswer

failures == INSTANCE RateLimiter WITH
  Keys <- Clients, Capacity <- FailureCapacity, Cost <- FailureCost,
  table <- failureTable, answer <- failureAnswer

ASSUME AuthenticationAssumption ==
  /\ IsFiniteSet(Threads) /\ IsFiniteSet(Clients)
  /\ MaxTime \in Nat
  /\ Stored \subseteq RawKeys
  /\ NoKey \notin RawKeys
  /\ Requests \subseteq Clients \X (RawKeys \cup {NoKey})
  /\ Ttl \in Nat
  /\ MaxEntries \in Nat \ {0}
  /\ perKey!LimiterConstants /\ failures!LimiterConstants

Never == -1
Uncounted == -1
Idle == [at |-> "idle", client |-> NoKey, key |-> NoKey]
Steps == {"idle", "lookup", "throttle", "verify", "spend", "fail"}

Entry(key) == {i \in DOMAIN verified : verified[i].key = key}
Cached(key) == Entry(key) # {}
Place(key) == CHOOSE i \in Entry(key) : TRUE
ExpiryOf(key) == verified[Place(key)].expires
Dropped(key) == RemoveAt(verified, Place(key))

Init ==
  /\ perKey!Init
  /\ failures!Init
  /\ verified = <<>>
  /\ request = [t \in Threads |-> Idle]
  /\ known = [k \in Stored |-> Never]
  /\ guesses = [c \in Clients |-> 0]

Goto(t, step) == request' = [request EXCEPT ![t].at = step]
Answer(t) == request' = [request EXCEPT ![t] = Idle]

Arrive(t) ==
  /\ request[t].at = "idle"
  /\ \E r \in Requests :
       request' = [request EXCEPT ![t] =
         [at |-> IF r[2] = NoKey THEN "throttle" ELSE "lookup", client |-> r[1], key |-> r[2]]]
  /\ UNCHANGED <<now, keyVars, failureVars, verified, history>>

\* Faulty: an entry is served for ever.
NeverExpired(key) == FALSE

\* _cached_principal: an entry past its time is deleted by whoever finds it.
Expired(key) == Cached(key) /\ ExpiryOf(key) < now

Lookup(t) ==
  LET key == request[t].key IN
  /\ request[t].at = "lookup"
  /\ Goto(t, IF Cached(key) /\ ~Expired(key) THEN "spend" ELSE "throttle")
  /\ verified' = IF Expired(key) THEN Dropped(key) ELSE verified
  /\ UNCHANGED <<now, keyVars, failureVars, history>>

\* The clients whose failures a full table forgets in this step though their buckets are not full.
Forgiven == {c \in failures!Tracked \ failures!FullByNow(failureTable) : c \notin failures!Tracked'}

Counted == guesses' = [c \in Clients |-> IF c \in Forgiven THEN Uncounted ELSE guesses[c]]

Throttle(t) ==
  /\ request[t].at = "throttle"
  /\ failures!Look(request[t].client)
  /\ IF failureAnswer'.yes THEN Goto(t, IF request[t].key = NoKey THEN "fail" ELSE "verify")
     ELSE Answer(t)
  /\ Counted
  /\ UNCHANGED <<keyVars, verified, known>>

\* Faulty: an entry that is there is left as it was.
RememberedOnce(key) ==
  IF Cached(key) THEN verified ELSE Append(verified, [key |-> key, expires |-> now + Ttl])

\* _remember: a full cache drops its oldest entry; a key that is there keeps its place.
Remembered(key) ==
  LET kept == IF Len(verified) >= MaxEntries THEN Tail(verified) ELSE verified
      entry == [key |-> key, expires |-> now + Ttl]
  IN IF \E i \in DOMAIN kept : kept[i].key = key
     THEN [i \in DOMAIN kept |-> IF kept[i].key = key THEN entry ELSE kept[i]]
     ELSE Append(kept, entry)

VerifyStored(t) ==
  LET key == request[t].key IN
  /\ request[t].at = "verify"
  /\ key \in Stored
  /\ verified' = Remembered(key)
  /\ known' = [k \in Stored |->
                 IF k = key THEN now
                 ELSE IF Len(verified) >= MaxEntries /\ Cached(k) /\ ~Cached(k)' THEN Never
                 ELSE known[k]]
  /\ Goto(t, "spend")
  /\ UNCHANGED <<now, keyVars, failureVars, guesses>>

VerifyUnknown(t) ==
  /\ request[t].at = "verify"
  /\ request[t].key \notin Stored
  /\ guesses' = [guesses EXCEPT ![request[t].client] = IF @ = Uncounted THEN @ ELSE @ + 1]
  /\ Goto(t, "fail")
  /\ UNCHANGED <<now, keyVars, failureVars, verified, known>>

\* Answers 429 when the key has no token left, and the principal otherwise.
Spend(t) ==
  /\ request[t].at = "spend"
  /\ perKey!Allow(request[t].key)
  /\ Answer(t)
  /\ UNCHANGED <<failureVars, verified, history>>

\* Faulty: a wrong key costs its client nothing.
FreeFailure(t) ==
  /\ request[t].at = "fail"
  /\ Answer(t)
  /\ UNCHANGED <<now, failureVars, keyVars, verified, history>>

Fail(t) ==
  /\ request[t].at = "fail"
  /\ failures!Allow(request[t].client)
  /\ Answer(t)
  /\ Counted
  /\ UNCHANGED <<keyVars, verified, known>>

Tick ==
  /\ now < MaxTime
  /\ now' = now + 1
  /\ UNCHANGED <<keyVars, failureVars, verified, request, history>>

Step(t) ==
  \/ Arrive(t) \/ Lookup(t) \/ Throttle(t)
  \/ VerifyStored(t) \/ VerifyUnknown(t)
  \/ Spend(t) \/ Fail(t)

Next == Tick \/ \E t \in Threads : Step(t)

Spec == Init /\ [][Next]_vars

-----------------------------------------------------------------------------
\* The types; both tables and the cache stay within their limits, whatever the threads interleave.
TypeOK ==
  /\ now \in 0..MaxTime
  /\ perKey!TableOK
  /\ failures!TableOK
  /\ Len(verified) <= MaxEntries
  /\ \A i \in DOMAIN verified : verified[i].key \in Stored /\ verified[i].expires \in 0..(MaxTime + Ttl)
  /\ \A t \in Threads : request[t].at \in Steps
  /\ known \in [Stored -> {Never} \cup 0..MaxTime]
  /\ guesses \in [Clients -> {Uncounted} \cup Nat]

\* Unless a full cache dropped it, a key is known exactly as long as it should be: until Ttl after
\* its latest verification and no longer, however many threads verified it meanwhile.  This is what
\* keeps a good key working behind an address that is being throttled, and what makes it be
\* verified again in the end.
CacheKnowsRecentKeys ==
  \A k \in Stored :
    /\ known[k] # Never /\ now <= known[k] + Ttl => Cached(k)
    /\ Cached(k) => ExpiryOf(k) = known[k] + Ttl

\* A request that goes to its key's bucket without a verification of its own does so within Ttl of
\* one that somebody made; nothing is let through on an entry that has run out.
CacheIsNotStale ==
  [][\A t \in Threads : request[t].at = "lookup" /\ request'[t].at = "spend"
       => known[request[t].key] # Never /\ now <= known[request[t].key] + Ttl]_vars

\* The check of a client's failures and the token a failure costs are two steps, so every thread may
\* pass the check on the same token; that factor is all that interleaving can add.
GuessesBounded ==
  \A c \in Clients :
    guesses[c] # Uncounted =>
      guesses[c] * FailureCost <= Cardinality(Threads) * (FailureCapacity + now)

\* Lazily refilled buckets in a bounded table behave as a bucket per key that fills by itself:
\* dropping full buckets loses nothing, and another bucket goes only when the table is crowded.
KeysGetTheirBuckets == perKey!Buckets!Spec
ClientsGetTheirBuckets == failures!Buckets!Spec
=============================================================================
