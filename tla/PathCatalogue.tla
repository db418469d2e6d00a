--------------------------- MODULE PathCatalogue ---------------------------
(***************************************************************************)
(* The process-path catalogue: a cache of the definitions another service  *)
(* publishes, built by replaying the whole topic under a consumer group of *)
(* the process's own, and the rule by which an id is looked up in it.      *)
(*                                                                         *)
(* An id or prefix is the sequence of its parts between dashes, in lower   *)
(* case.  The publisher keys its messages by path, so that a path's        *)
(* changes are in one partition.                                           *)
(***************************************************************************)
EXTENDS Integers, SequencesExt

CONSTANTS Partitions,  \* of the catalogue's topic
          Topic,       \* the messages each partition will ever hold
          Canonical    \* the cache key of each path id: strings.ToUpper

(* Capabilities and destination role, which no caller looks at, are left   *)
(* out of a message.  "other" is an event type outside the contract,       *)
(* "garbled" a message that does not decode.                               *)
Messages == UNION {Range(Topic[p]) : p \in Partitions}
PathIds  == DOMAIN Canonical
Keys     == Range(Canonical)

ASSUME CatalogueAssumption ==
    /\ IsFiniteSet(Keys) /\ Topic \in [Partitions -> Seq(Messages)]
    /\ \A m \in Messages : /\ m.type \in {"created", "updated", "deactivated", "other", "garbled"}
                           /\ m.id \in PathIds /\ m.prefix \in Seq(STRING)
    /\ \A p, q \in Partitions : \A m \in Range(Topic[p]), n \in Range(Topic[q]) :
          Canonical[m.id] = Canonical[n.id] => p = q

VARIABLES published, \* how many messages each partition holds
          next,      \* the offset each partition is read at next
          paths,     \* the cache: the prefix of each key, or Unknown
          target,    \* the ends to be reached before it is ready, 0 for none
          ready,
          reading    \* Run has not returned

catalogue == <<published, next, paths, target, ready, reading>>

Unknown == <<"unknown path">>

CatalogueTypeOK ==
    /\ published \in [Partitions -> Nat]
    /\ next \in [Partitions -> Nat]
    /\ target \in [Partitions -> Nat]
    /\ DOMAIN paths = Keys
    /\ ready \in BOOLEAN /\ reading \in BOOLEAN
    /\ \A p \in Partitions : next[p] <= published[p] /\ published[p] <= Len(Topic[p])

NoPaths == [k \in Keys |-> Unknown]

CatalogueInit ==
    /\ published \in [Partitions -> 0..1]
    /\ \A p \in Partitions : published[p] <= Len(Topic[p])
    /\ next = [p \in Partitions |-> 0]
    /\ paths = NoPaths
    /\ target = [p \in Partitions |-> 0]
    /\ ready = FALSE
    /\ reading = FALSE

(* process-path-management publishes. *)
PublishChange(p) ==
    /\ published[p] < Len(Topic[p])
    /\ published' = [published EXCEPT ![p] = @ + 1]
    /\ UNCHANGED <<next, paths, target, ready, reading>>

(* Mutated NewConsumer: a partition with nothing in it is waited for, too. *)
NewConsumerAwaitingAll ==
    /\ target' = [p \in Partitions |-> IF published[p] = 0 THEN 1 ELSE published[p]]
    /\ next' = [p \in Partitions |-> 0]
    /\ paths' = NoPaths
    /\ ready' = FALSE
    /\ reading' = TRUE
    /\ UNCHANGED published

(* NewConsumer: the ends of the partitions that hold anything are what it  *)
(* has to reach, it reads from the start, and Run is started.  With        *)
(* nothing to reach it is ready.                                           *)
NewConsumer ==
    /\ target' = published
    /\ next' = [p \in Partitions |-> 0]
    /\ paths' = NoPaths
    /\ ready' = (\A p \in Partitions : published[p] = 0)
    /\ reading' = TRUE
    /\ UNCHANGED published

(* Mutated Apply: a deactivated path is left in the cache. *)
ApplyUpsertsOnly(m) ==
    IF m.type \in {"created", "updated"}
    THEN [paths EXCEPT ![Canonical[m.id]] = m.prefix]
    ELSE paths

(* handle: an upsert, a removal, or nothing. *)
Apply(m) ==
    CASE m.type \in {"created", "updated"} -> [paths EXCEPT ![Canonical[m.id]] = m.prefix]
      [] m.type = "deactivated"            -> [paths EXCEPT ![Canonical[m.id]] = Unknown]
      [] OTHER                             -> paths

(* Mutated Reached: the end is taken for the last offset. *)
ReachedTooSoon(p) == target[p] > 0 /\ next[p] + 2 >= target[p]

(* The message at the offset is the last of the target. *)
Reached(p) == target[p] > 0 /\ next[p] + 1 >= target[p]

(* checkReady, after every message, also one that could not be handled.    *)
CheckReady(p) ==
    IF ~ready /\ Reached(p)
    THEN /\ target' = [target EXCEPT ![p] = 0]
         /\ ready' = (\A q \in Partitions \ {p} : target[q] = 0)
    ELSE UNCHANGED <<target, ready>>

(* One round of Run. *)
ReadMessage(p) ==
    /\ reading
    /\ next[p] < published[p]
    /\ paths' = Apply(Topic[p][next[p] + 1])
    /\ CheckReady(p)
    /\ next' = [next EXCEPT ![p] = @ + 1]
    /\ UNCHANGED <<published, reading>>

(* Run returns: the reader failed, or was closed. *)
StopReading ==
    /\ reading' = FALSE
    /\ UNCHANGED <<published, next, paths, target, ready>>

-----------------------------------------------------------------------------
(* Lookup *)

(* id equals the prefix, or goes on with a dash after it. *)
MatchesPrefix(id, prefix) == IsPrefix(prefix, id)

(* Mutated Better: the last match wins. *)
BetterLast(prefix, best) == TRUE

(* The longest wins so far. *)
Better(prefix, best) == best = Unknown \/ Len(prefix) > Len(best)

(* The loop over the definitions, in the order the map gives them. *)
LookupIn(defs, id) ==
    LET Visit(best, prefix) ==
            IF prefix # <<>> /\ MatchesPrefix(id, prefix) /\ Better(prefix, best)
            THEN prefix ELSE best
    IN  FoldLeft(Visit, Unknown, defs)

Active == {k \in Keys : paths[k] # Unknown}

(* Consumer.Lookup: any order of the map. *)
Lookups(id) ==
    {LookupIn([i \in DOMAIN ks |-> paths[ks[i]]], id) : ks \in SetToSeqs(Active)}

-----------------------------------------------------------------------------
(* Properties *)

(* The changes of key k among the first n messages of partition p. *)
Changes(k, p, n) ==
    {i \in 1..n : /\ Canonical[Topic[p][i].id] = k
                  /\ Topic[p][i].type \in {"created", "updated", "deactivated"}}

(* What key k should be after those: its last change, whichever way its id *)
(* is spelt, and whatever could not be read before or after.               *)
Latest(k, ends) ==
    LET last == {m \in Messages : \E p \in Partitions : \E i \in Changes(k, p, ends[p]) :
                    m = Topic[p][i] /\ \A j \in Changes(k, p, ends[p]) : j <= i}
    IN  IF \E m \in last : m.type # "deactivated"
        THEN (CHOOSE m \in last : TRUE).prefix
        ELSE Unknown

(* The cache is the log read so far and nothing else: no path comes back   *)
(* after its deactivation, and none survives from an earlier process.      *)
CacheIsLog == \A k \in Keys : paths[k] = Latest(k, next)

(* Whatever order the map is walked in, an id is known exactly when some   *)
(* active path declares a prefix of it, and every answer is a longest one. *)
LookupIsLongestMatch ==
    \A id \in {m.prefix : m \in Messages} \cup {<<"pick", "cold", "7">>, <<"pick7">>} :
        LET matches == {paths[k] : k \in {a \in Active : paths[a] # <<>>
                                                       /\ IsPrefix(paths[a], id)}}
        IN  Lookups(id) = IF matches = {} THEN {Unknown}
                          ELSE {m \in matches : \A n \in matches : Len(n) <= Len(m)}
=============================================================================
