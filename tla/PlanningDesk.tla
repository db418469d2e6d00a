---------------------------- MODULE PlanningDesk ----------------------------
(***************************************************************************)
(* The use cases around the work pool of one path: committing a shift      *)
(* plan, receiving a forecast, sampling the backlog, advising on           *)
(* rebalancing; and a release of work as far as its lookup goes.           *)
(*                                                                         *)
(* Two of them ask other services for hints, fail-open, each through a     *)
(* breaker of its own: CommitShiftPlan (facility-layout) before its        *)
(* transaction, the WorkReleased encoder (inventory-storage) inside it.    *)
(*                                                                         *)
(* The optimistic save of a pool (WorkPlanning) is the lock it takes on    *)
(* the pool's row; a transaction that lost reads again: one step here.     *)
(* Completions are steps of the environment.  The outbox is what has been  *)
(* committed to it; ids are drawn when a row is inserted.                  *)
(***************************************************************************)
EXTENDS WorkPool, CircuitBreaker

CONSTANTS Clients,
          Requests,        \* records with the fields op, valid and extra,
                           \* which is asking for a hint or for the capacity
          NoRequest,
          AlarmThreshold,
          WithSku,         \* the units that have a SKU
          MaxAttempts,     \* maxRetryAttempts of a lookup, 3 in the code
          MaxAsked,        \* bound: requests
          MaxFailures,     \* bound: failed database calls
          MaxTimers        \* bound: windows and cool-downs that end

Documents == {"plan", "forecast"}
Ops == Documents \cup {"sample", "rebalance", "release"}
Dependencies == {"facility-layout", "inventory-storage"}

ASSUME DeskAssumption ==
    /\ \A r \in Requests : r.op \in Ops /\ {r.valid, r.extra} \subseteq BOOLEAN
    /\ NoRequest \notin Requests
    /\ IsFiniteSet(Clients)
    /\ WithSku \subseteq WorkUnits
    /\ MaxAttempts \in Nat \ {0}
    /\ {AlarmThreshold, MaxAsked, MaxFailures, MaxTimers} \subseteq Nat

VARIABLES mode,      \* the pool's feed mode, which nothing changes
          pool,      \* its entries
          stored,    \* the plan and the forecast of the path
          outbox,    \* the committed events: records id, type, says
          nextId,
          breaker,   \* one for each dependency
          client,    \* what each client's request is at
          asked,     \* history: requests so far
          failures,  \* history: failed database calls
          timers,    \* history: timers that ended
          failed     \* history: lookups that failed since the breaker was last closed

database == <<mode, pool, stored, outbox, nextId>>
history  == <<asked, failures, timers, failed>>
vars     == <<database, breaker, client, history>>

Labels == {"idle", "read", "hold", "enter", "fetch", "save", "publish", "commit"}

Free == [at |-> "idle", req |-> NoRequest, unit |-> {}, tries |-> 0, epoch |-> 0,
         events |-> {}, id |-> 0, seen |-> {}, advice |-> {}]

Op(c) == client[c].req.op
DependencyOf(c) == IF Op(c) = "plan" THEN "facility-layout" ELSE "inventory-storage"

(* The transactions that hold the lock of a document's, or the pool's, row. *)
RowHolders(doc) == {c \in Clients : client[c].at \in {"publish", "commit"} /\ Op(c) = doc}
PoolHolders == {c \in Clients : client[c].unit # {}}

TypeOK ==
    /\ mode \in {"ReleaseFed", "FlowFed"}
    /\ pool \in Pools
    /\ stored \in [Documents -> Requests \cup {NoRequest}]
    /\ \A e, f \in outbox : e.id = f.id => e = f
    /\ \A e \in outbox : e.id < nextId
    /\ breaker \in [Dependencies -> Breakers]
    /\ \A c \in Clients :
          IF client[c].at = "idle"
          THEN client[c] = Free
          ELSE /\ client[c].at \in Labels
               /\ client[c].req \in Requests
               /\ client[c].tries \in 0..MaxAttempts
    /\ Cardinality(PoolHolders) <= 1
    /\ \A doc \in Documents : Cardinality(RowHolders(doc)) <= 1

Init ==
    /\ mode \in {"ReleaseFed", "FlowFed"}
    /\ pool = [w \in WorkUnits |-> "pending"]
    /\ stored = [doc \in Documents |-> NoRequest]
    /\ outbox = {}
    /\ nextId = 1
    /\ breaker = [d \in Dependencies |-> NewBreaker]
    /\ client = [c \in Clients |-> Free]
    /\ asked = 0
    /\ failures = 0
    /\ timers = 0
    /\ failed = [d \in Dependencies |-> 0]

Goto(c, label) == client' = [client EXCEPT ![c].at = label]
Answer(c) == client' = [client EXCEPT ![c] = Free]

-----------------------------------------------------------------------------
(* A request begins *)

(* NewPathPlan and NewChargeForecast refuse what is not valid; the lookup  *)
(* is for requests that name both locations.                               *)
FirstStep(r) ==
    CASE r.op \in Documents /\ ~r.valid -> "idle"
      [] r.op = "plan" /\ r.valid /\ r.extra -> "enter"
      [] r.op = "release" -> "hold"
      [] r.op \in {"sample", "rebalance"} -> "read"
      [] OTHER -> "save"

(* Backlog depth, work in progress, and what is left to admit, which is    *)
(* known only of a release-fed pool with a limit.                          *)
Reading(entries) ==
    [backlog |-> BacklogDepth(entries),
     wip |-> WIP(entries),
     remaining |-> IF mode = "ReleaseFed" /\ WipLimit > 0 THEN WipLimit - WIP(entries) ELSE 0]

Ask(c, r) ==
    /\ client[c].at = "idle"
    /\ asked < MaxAsked
    /\ asked' = asked + 1
    /\ client' = [client EXCEPT ![c] =
                     IF FirstStep(r) = "idle" THEN Free
                     ELSE [Free EXCEPT !.at = FirstStep(r), !.req = r, !.seen = {Reading(pool)}]]
    /\ UNCHANGED <<database, breaker, failures, timers, failed>>

-----------------------------------------------------------------------------
(* A lookup: one call of the breaker, with retries inside *)

AfterLookup(c) == IF Op(c) = "plan" THEN "save" ELSE "publish"

(* An open breaker, or a half-open one with its probe out, sends nothing:  *)
(* the permissive answer, no hint.                                         *)
Enter(c) ==
    /\ client[c].at = "enter"
    /\ LET d == DependencyOf(c)
       IN  IF Admits(breaker[d])
           THEN /\ breaker' = [breaker EXCEPT ![d] = Admitted(@)]
                /\ client' = [client EXCEPT ![c].at = "fetch", ![c].tries = 0,
                                            ![c].epoch = breaker[d].epoch]
           ELSE /\ UNCHANGED breaker
                /\ Goto(c, AfterLookup(c))
    /\ UNCHANGED <<database, history>>

(* A 200, or a 404 or 422, which says that nothing is known. *)
FetchAnswered(c) ==
    /\ client[c].at = "fetch"
    /\ LET d == DependencyOf(c)
           after == Succeeded(breaker[d], client[c].epoch)
       IN  /\ breaker' = [breaker EXCEPT ![d] = after]
           /\ failed' = [failed EXCEPT ![d] =
                            IF breaker[d].state # "closed" /\ after.state = "closed" THEN 0 ELSE @]
    /\ Goto(c, AfterLookup(c))
    /\ UNCHANGED <<database, asked, failures, timers>>

(* Mutated LookupFailed: every attempt is a call of the breaker's. *)
LookupFailedEach(c) ==
    LET d == DependencyOf(c)
        once == Failed(breaker[d], client[c].epoch)
    IN  /\ breaker' = [breaker EXCEPT ![d] = Failed(once, once.epoch)]
        /\ failed' = [failed EXCEPT ![d] = @ + 1]

(* The whole loop of attempts counts as one failure. *)
LookupFailed(c) ==
    LET d == DependencyOf(c)
    IN  /\ breaker' = [breaker EXCEPT ![d] = Failed(@, client[c].epoch)]
        /\ failed' = [failed EXCEPT ![d] = @ + 1]

(* A transport error or another status: the next attempt, or, after the    *)
(* last or past the deadline, the failure, which is no hint to the caller. *)
FetchFailed(c) ==
    /\ client[c].at = "fetch"
    /\ \/ /\ client[c].tries + 1 < MaxAttempts
          /\ client' = [client EXCEPT ![c].tries = @ + 1]
          /\ UNCHANGED <<breaker, failed>>
       \/ /\ LookupFailed(c)
          /\ Goto(c, AfterLookup(c))
    /\ UNCHANGED <<database, asked, failures, timers>>

(* The caller goes away: the call is left out of the counts; what comes    *)
(* after the lookup runs under the same context and fails.                 *)
CancelLookup(c) ==
    /\ client[c].at = "fetch"
    /\ LET d == DependencyOf(c)
       IN  \E b \in Excluded(breaker[d], client[c].epoch) :
              breaker' = [breaker EXCEPT ![d] = b]
    /\ Answer(c)
    /\ UNCHANGED <<database, history>>

TimerEnds(d) ==
    /\ timers < MaxTimers
    /\ timers' = timers + 1
    /\ breaker' = [breaker EXCEPT ![d] =
                      IF @.state = "open" THEN CooledDown(@) ELSE WindowEnded(@)]
    /\ breaker[d].state # "halfOpen"
    /\ UNCHANGED <<database, client, asked, failures, failed>>

-----------------------------------------------------------------------------
(* Releasing, as far as the lock and the lookup go *)

MayRelease == Pending(pool) # {} /\ (mode = "FlowFed" \/ WIP(pool) < WipLimit)

(* The pool's row and the unit's are saved; then the event is encoded. *)
Hold(c) ==
    /\ client[c].at = "hold"
    /\ PoolHolders = {}
    /\ IF MayRelease
       THEN \E w \in NextPending(pool) :
              client' = [client EXCEPT ![c].at = IF w \in WithSku THEN "enter" ELSE "publish",
                                       ![c].unit = {w},
                                       ![c].events = {"WorkReleased"}]
       ELSE Answer(c)
    /\ UNCHANGED <<database, breaker, history>>

-----------------------------------------------------------------------------
(* Sampling and advising: one read of the pool *)

OverAlarmThreshold(reading) == reading.backlog > AlarmThreshold

SampleEvents(r, reading) ==
    {e \in {"BacklogThresholdBreached", "PathCapacityChanged"} :
        IF e = "PathCapacityChanged" THEN r.extra ELSE OverAlarmThreshold(reading)}

RebalanceEvents(reading) ==
    {e \in {"PathThrottled", "LaborReassignmentFlagged"} :
        IF e = "PathThrottled" THEN mode = "FlowFed" /\ OverAlarmThreshold(reading)
        ELSE mode = "ReleaseFed" /\ reading.wip >= WipLimit /\ reading.backlog > 0}

EventsOf(r, reading) ==
    IF r.op = "sample" THEN SampleEvents(r, reading) ELSE RebalanceEvents(reading)

Advise(c, reading) ==
    client' = [client EXCEPT ![c].at = "publish",
                             ![c].advice = {reading},
                             ![c].events = EventsOf(client[c].req, reading)]

(* Mutated Read: depth and work in progress are read one after the other.  *)
ReadTwice(c) ==
    /\ client[c].at = "read"
    /\ IF client[c].advice = {}
       THEN client' = [client EXCEPT ![c].advice = {Reading(pool)}]
       ELSE \E first \in client[c].advice :
              Advise(c, [Reading(pool) EXCEPT !.backlog = first.backlog])
    /\ UNCHANGED <<database, breaker, history>>

(* All entries come with one statement. *)
Read(c) ==
    /\ client[c].at = "read"
    /\ Advise(c, Reading(pool))
    /\ UNCHANGED <<database, breaker, history>>

(* Nothing to publish: the reading is the answer. *)
AnswerReading(c) ==
    /\ client[c].at = "publish"
    /\ client[c].events = {}
    /\ Answer(c)
    /\ UNCHANGED <<database, breaker, history>>

-----------------------------------------------------------------------------
(* Saving a document, the outbox, and the commit *)

(* Mutated Save: the upsert does not wait for the row. *)
SaveUnlocked(c) ==
    /\ client[c].at = "save"
    /\ client' = [client EXCEPT ![c].at = "publish", ![c].events = {Op(c)}]
    /\ UNCHANGED <<database, breaker, history>>

(* INSERT ... ON CONFLICT (path_id) DO UPDATE locks the row. *)
Save(c) ==
    /\ client[c].at = "save"
    /\ RowHolders(Op(c)) = {}
    /\ client' = [client EXCEPT ![c].at = "publish", ![c].events = {Op(c)}]
    /\ UNCHANGED <<database, breaker, history>>

Publish(c) ==
    /\ client[c].at = "publish"
    /\ client[c].events # {}
    /\ client' = [client EXCEPT ![c].at = "commit", ![c].id = nextId]
    /\ nextId' = nextId + 1
    /\ UNCHANGED <<mode, pool, stored, outbox, breaker, history>>

(* Every open request sees the state that a commit leaves behind. *)
Witnessed(clients, entries) ==
    [k \in Clients |->
        IF clients[k].at = "idle" THEN clients[k]
        ELSE [clients[k] EXCEPT !.seen = @ \cup {Reading(entries)}]]

CommitTx(c) ==
    LET me == client[c]
        entries == IF Op(c) = "release"
                   THEN [w \in WorkUnits |-> IF w \in me.unit THEN "released" ELSE pool[w]]
                   ELSE pool
    IN  /\ me.at = "commit"
        /\ pool' = entries
        /\ stored' = [doc \in Documents |-> IF doc = Op(c) THEN me.req ELSE stored[doc]]
        /\ outbox' = outbox \cup {[id |-> me.id, type |-> me.events, says |-> me.req]}
        /\ client' = Witnessed([client EXCEPT ![c] = Free], entries)
        /\ UNCHANGED <<mode, nextId, breaker, history>>

(* A statement or the commit fails: everything is rolled back. *)
FailDatabase(c) ==
    /\ client[c].at \in {"read", "hold", "save", "publish", "commit"}
    /\ failures < MaxFailures
    /\ failures' = failures + 1
    /\ Answer(c)
    /\ UNCHANGED <<database, breaker, asked, timers, failed>>

(* The environment: another request completes a unit. *)
OtherWork(w) ==
    /\ PoolHolders = {}
    /\ pool[w] = "released"
    /\ pool' = [pool EXCEPT ![w] = "completed"]
    /\ client' = Witnessed(client, pool')
    /\ UNCHANGED <<mode, stored, outbox, nextId, breaker, history>>

-----------------------------------------------------------------------------
Serve(c) ==
    \/ Enter(c) \/ FetchAnswered(c) \/ FetchFailed(c)
    \/ Hold(c) \/ Read(c) \/ AnswerReading(c)
    \/ Save(c) \/ Publish(c) \/ CommitTx(c)

Next ==
    \/ \E c \in Clients : \/ \E r \in Requests : Ask(c, r)
                          \/ Serve(c) \/ CancelLookup(c) \/ FailDatabase(c)
    \/ \E d \in Dependencies : TimerEnds(d)
    \/ \E w \in WorkUnits : OtherWork(w)

Spec == Init /\ [][Next]_vars

-----------------------------------------------------------------------------
(* Properties *)

(* The unit of work of CommitShiftPlan and ReceiveChargeForecast: what is  *)
(* stored for the path is what the last event of the outbox announces, in  *)
(* the order of the ids the relay follows, whichever requests race.        *)
StreamEndsWithWhatIsStored ==
    \A doc \in Documents :
        LET about == {e \in outbox : e.type = {doc}}
        IN  IF about = {} THEN stored[doc] = NoRequest
            ELSE \E last \in about :
                    /\ \A e \in about : e.id <= last.id
                    /\ stored[doc] = last.says

(* SampleBacklog and RebalanceDecision: depth, work in progress and what   *)
(* is left are those of one state that the pool had while the request was  *)
(* served, also when releases and completions commit around the read; what *)
(* is left is never negative, although nothing clamps it (work_pool.go:187). *)
ReadingsAreOfOneMoment ==
    \A c \in Clients : client[c].at = "publish" =>
        \A r \in client[c].advice : r \in client[c].seen /\ r.remaining >= 0

(* internal/resilience: a breaker opens only for failed lookups of its own *)
(* dependency, as many as the trip condition needs, a lookup's retries     *)
(* counted once.                                                           *)
OpensForItsOwnFailures ==
    \A d \in Dependencies : breaker[d].state # "closed" => failed[d] >= FewestToTrip
=============================================================================
