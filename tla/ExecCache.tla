----------------------------- MODULE ExecCache -----------------------------
(* ExecutionCache (cache.rs): results of executions by (lang, code), each    *)
(* with the time to live that was the default when it was stored.  Expired   *)
(* results stay in the map until the next set() or evict_expired().          *)
EXTENDS Naturals, FiniteSets, Functions

CONSTANTS Key,        \* (lang, code), as hash() keeps them apart
          Result,     \* what executions print
          Miss,       \* get() returns None
          MaxEntries, \* maxima in use; the least is the initial one
          Ttl,        \* times to live in use; the least is the initial one
          MaxClock    \* bound: the clock

CacheAssumption ==
    /\ Miss \notin Result
    /\ MaxEntries \subseteq Nat /\ MaxEntries # {}
    /\ Ttl \subseteq Nat /\ Ttl # {} /\ MaxClock \in Nat

VARIABLES entries,     \* the map
          max_entries, default_ttl,
          clock,       \* Instant::now()
          promised     \* history: the last result accepted for a key, and until when

vars == <<entries, max_entries, default_ttl, clock, promised>>

Least(S) == CHOOSE n \in S : \A m \in S : n <= m
Entry == [result : Result, created_at : 0 .. MaxClock, ttl : Ttl]
Nothing == [result |-> Miss, until |-> 0]

(* The map has entries for some keys, made by now. *)
TypeOK ==
    /\ DOMAIN entries \subseteq Key
    /\ \A k \in DOMAIN entries : entries[k] \in Entry /\ entries[k].created_at <= clock
    /\ max_entries \in MaxEntries /\ default_ttl \in Ttl /\ clock \in 0 .. MaxClock

Init ==
    /\ entries = [k \in {} |-> Miss]
    /\ max_entries = Least(MaxEntries) /\ default_ttl = Least(Ttl)
    /\ clock = 0
    /\ promised = [k \in Key |-> Nothing]

(* is_expired: at its time to live, an entry is expired. *)
Expired(k) == clock - entries[k].created_at >= entries[k].ttl
Kept == Restrict(entries, {k \in DOMAIN entries : ~Expired(k)})

(* An expired entry is a miss, and stays. *)
Get(k) == IF k \in DOMAIN entries /\ ~Expired(k) THEN entries[k].result ELSE Miss

New(r) == [result |-> r, created_at |-> clock, ttl |-> default_ttl]

(* Mutated: insert keeps an entry that is there, as entry().or_insert() does. *)
Insert_KeepsOld(k, r) == [x \in DOMAIN Kept \cup {k} |-> IF x \in DOMAIN Kept THEN Kept[x] ELSE New(r)]

Insert(k, r) == [x \in DOMAIN Kept \cup {k} |-> IF x = k THEN New(r) ELSE Kept[x]]

(* Expired entries go first; a cache that is full then refuses the result,    *)
(* that of a key it has included.                                            *)
Set(k, r) ==
    /\ IF Cardinality(DOMAIN Kept) >= max_entries
       THEN /\ entries' = Kept
            /\ UNCHANGED promised
       ELSE /\ entries' = Insert(k, r)
            /\ promised' = [promised EXCEPT ![k] = [result |-> r, until |-> clock + default_ttl]]
    /\ UNCHANGED <<max_entries, default_ttl, clock>>

Clear ==
    /\ entries' = [k \in {} |-> Miss]
    /\ promised' = [k \in Key |-> Nothing]
    /\ UNCHANGED <<max_entries, default_ttl, clock>>

EvictExpired ==
    /\ entries' = Kept
    /\ UNCHANGED <<max_entries, default_ttl, clock, promised>>

(* set_max_entries evicts nothing. *)
SetMaxEntries(n) ==
    /\ max_entries' = n
    /\ UNCHANGED <<entries, default_ttl, clock, promised>>

(* set_default_ttl is for new entries. *)
SetDefaultTtl(t) ==
    /\ default_ttl' = t
    /\ UNCHANGED <<entries, max_entries, clock, promised>>

Tick ==
    /\ clock < MaxClock /\ clock' = clock + 1
    /\ UNCHANGED <<entries, max_entries, default_ttl, promised>>

Next ==
    \/ \E k \in Key, r \in Result : Set(k, r)
    \/ Clear \/ EvictExpired \/ Tick
    \/ \E n \in MaxEntries : SetMaxEntries(n)
    \/ \E t \in Ttl : SetDefaultTtl(t)

Spec == Init /\ [][Next]_vars

-----------------------------------------------------------------------------
(* get() answers with the last result that was accepted for its key, for as   *)
(* long as the time to live of that set() and no longer, whatever was refused, *)
(* evicted or reconfigured since.                                             *)
RemembersExactly ==
    \A k \in Key : Get(k) = IF clock < promised[k].until THEN promised[k].result ELSE Miss
=============================================================================
