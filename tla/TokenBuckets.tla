---------------------------- MODULE TokenBuckets ----------------------------
(* What a rate limiter promises: every key has a bucket that gains one unit a   *)
(* tick; a request is allowed when Cost units are in it and then takes them     *)
(* out; looking takes nothing; and a bucket is only ever forgotten (and so      *)
(* counted as full again) when MaxTracked keys have all been asked about within *)
(* the time a bucket takes to fill.                                             *)
EXTENDS Integers, FiniteSets

CONSTANTS Keys, Capacity, Cost, MaxTracked

VARIABLES
  level,    \* units in the bucket of each key
  quiet,    \* ticks since each key was last asked about, at most Capacity
  answer    \* the latest call and what it returned

vars == <<level, quiet, answer>>

AtMost(n) == IF n < Capacity THEN n ELSE Capacity

Init ==
  /\ level = [k \in Keys |-> Capacity]
  /\ quiet = [k \in Keys |-> Capacity]
  /\ answer = [yes |-> TRUE]

Tick ==
  /\ level' = [k \in Keys |-> AtMost(level[k] + 1)]
  /\ quiet' = [k \in Keys |-> AtMost(quiet[k] + 1)]
  /\ UNCHANGED answer

Crowded == Cardinality({k \in Keys : quiet[k] < Capacity}) >= MaxTracked

\* The buckets a question about key may forget: none, or one other when the table is crowded.
MayForget(key) == {{}} \cup {{k} : k \in {k \in Keys \ {key} : Crowded}}

HasToken(key) == level[key] >= Cost

\* A question about key that takes `paid` units out of its bucket.
Asked(key, paid) ==
  \E forgotten \in MayForget(key) :
    /\ level' = [k \in Keys |-> IF k \in forgotten THEN Capacity
                                ELSE IF k = key THEN level[k] - paid
                                ELSE level[k]]
    /\ quiet' = [k \in Keys |-> IF k \in forgotten THEN Capacity
                                ELSE IF k = key THEN 0 ELSE quiet[k]]

\* A request of key: yes if its bucket has a token, which is then gone.
Allow(key) ==
  /\ Asked(key, IF HasToken(key) THEN Cost ELSE 0)
  /\ answer' = [call |-> "allow", key |-> key, yes |-> HasToken(key)]

\* Whether there is a token, taking none.
Look(key) ==
  /\ Asked(key, 0)
  /\ answer' = [call |-> "look", key |-> key, yes |-> HasToken(key)]

Next == Tick \/ \E k \in Keys : Allow(k) \/ Look(k)

Spec == Init /\ [][Next]_vars
=============================================================================
