------------------------------ MODULE Process ------------------------------
(***************************************************************************)
(* cmd/wes/main.go: how the process starts, serves and stops, around the   *)
(* catalogue's cache.  It boots in order (catalogue, database, servers),   *)
(* gives each dependency BootRetries attempts, and serves only when the    *)
(* cache has been replayed.  On a signal it stops in order; when the       *)
(* listener or the relay fails it returns at once.  Kubernetes starts it   *)
(* again.                                                                  *)
(*                                                                         *)
(* A request holds a connection of the pool for its transactions only, and *)
(* a transaction commits at most one outbox row; a pass of the relay takes *)
(* all rows there are.  OutboxRelay has the rows and IdempotencyKey the    *)
(* request.                                                                *)
(***************************************************************************)
EXTENDS PathCatalogue, FiniteSets

CONSTANTS Requests,     \* request slots
          MaxRows,      \* outbox rows ever committed
          BootRetries,  \* bootRetries, 5 in the code
          MaxFailures,  \* failed attempts, timeouts, failing components, crashes
          MaxSignals    \* SIGTERMs

ASSUME ProcessAssumption ==
    /\ BootRetries \in Nat \ {0}
    /\ MaxRows \in Nat /\ MaxFailures \in Nat /\ MaxSignals \in Nat

VARIABLES phase,
          tries,      \* attempts at the dependency being dialled that failed
          startEnds,  \* the topic's ends when this process dialled it
          listening,  \* the HTTP listener
          inService,  \* what /readyz says
          inflight,   \* the requests being handled
          holding,    \* those that hold a connection of the pool
          committed,  \* outbox rows committed so far
          sent,       \* outbox rows marked published
          relay,      \* "off", "asleep" or "passing"
          late,       \* the process ends without having drained: the deadline
                      \* has passed, a component has failed, or it was killed
          failures, signals

outbox == <<committed, sent>>
server == <<listening, inService, inflight, holding>>
vars == <<catalogue, phase, tries, startEnds, server, outbox, relay, late,
          failures, signals>>

Booting  == {"dial", "replay", "database"}
Stopping == {"stopReaders", "closeListener", "drain", "stopRelay", "close"}

(* The type invariant. *)
TypeOK ==
    /\ CatalogueTypeOK
    /\ phase \in Booting \cup Stopping \cup {"down", "serving"}
    /\ tries \in 0..(BootRetries - 1)
    /\ inflight \subseteq Requests /\ holding \subseteq inflight
    /\ committed \in 0..MaxRows /\ sent \in 0..committed
    /\ relay \in {"off", "asleep", "passing"}
    /\ phase \in Booting \cup {"down"} => ~listening /\ relay = "off"

Init ==
    /\ CatalogueInit
    /\ phase = "down"
    /\ tries = 0
    /\ startEnds = published
    /\ listening = FALSE /\ inService = FALSE /\ inflight = {} /\ holding = {}
    /\ committed = 0 /\ sent = 0
    /\ relay = "off"
    /\ late = FALSE
    /\ failures = 0 /\ signals = 0

Go(from, to) == phase = from /\ phase' = to

Misfortune == failures < MaxFailures /\ failures' = failures + 1

-----------------------------------------------------------------------------
(* Boot *)

Start ==
    /\ Go("down", "dial")
    /\ tries' = 0
    /\ late' = FALSE
    /\ UNCHANGED <<catalogue, startEnds, server, outbox, relay, failures, signals>>

(* wireCatalogue, connected. *)
DialTopic ==
    /\ Go("dial", "replay")
    /\ NewConsumer
    /\ startEnds' = published
    /\ tries' = 0
    /\ UNCHANGED <<server, outbox, relay, late, failures, signals>>

(* Mutated BootFails: one attempt too many. *)
BootFailsLate(from) ==
    /\ phase = from
    /\ Misfortune
    /\ IF tries = BootRetries
       THEN phase' = "down" /\ tries' = 0 /\ reading' = FALSE
       ELSE tries' = tries + 1 /\ UNCHANGED <<phase, reading>>
    /\ UNCHANGED <<published, next, paths, target, ready, startEnds, server, outbox,
                   relay, late, signals>>

(* Retry: an attempt fails; after the last one the process ends.           *)
BootFails(from) ==
    /\ phase = from
    /\ Misfortune
    /\ IF tries + 1 = BootRetries
       THEN phase' = "down" /\ tries' = 0 /\ reading' = FALSE
       ELSE tries' = tries + 1 /\ UNCHANGED <<phase, reading>>
    /\ UNCHANGED <<published, next, paths, target, ready, startEnds, server, outbox,
                   relay, late, signals>>

WaitReady ==
    /\ Go("replay", "database")
    /\ ready
    /\ UNCHANGED <<catalogue, tries, startEnds, server, outbox, relay, late,
                   failures, signals>>

(* Mutated ReplayTimeout: there is none. *)
NoReplayTimeout == FALSE /\ UNCHANGED vars

(* WaitReadyTimeout passes: the topic is read too slowly, or no more.      *)
ReplayTimeout ==
    /\ Go("replay", "down")
    /\ ~ready
    /\ IF reading THEN Misfortune ELSE UNCHANGED failures
    /\ StopReading
    /\ UNCHANGED <<tries, startEnds, server, outbox, relay, late, signals>>

(* Migrations and ping, then listener, relay and consumer are started. *)
Serve ==
    /\ Go("database", "serving")
    /\ listening' = TRUE /\ inService' = TRUE
    /\ relay' = "asleep"
    /\ tries' = 0
    /\ UNCHANGED <<catalogue, startEnds, inflight, holding, outbox, late, failures, signals>>

-----------------------------------------------------------------------------
(* Serving *)

BeginRequest(r) ==
    /\ listening
    /\ r \notin inflight
    /\ inflight' = inflight \cup {r}
    /\ UNCHANGED <<catalogue, phase, tries, startEnds, listening, inService, holding,
                   outbox, relay, late, failures, signals>>

(* A pool that is closing lends no connection. *)
BeginTx(r) ==
    /\ r \in inflight \ holding
    /\ phase # "close"
    /\ holding' = holding \cup {r}
    /\ UNCHANGED <<catalogue, phase, tries, startEnds, listening, inService, inflight,
                   outbox, relay, late, failures, signals>>

(* A transaction commits its row, or has none, or is rolled back.          *)
EndTx(r) ==
    /\ r \in holding
    /\ holding' = holding \ {r}
    /\ committed' \in {n \in {committed, committed + 1} : n <= MaxRows}
    /\ UNCHANGED <<catalogue, phase, tries, startEnds, listening, inService, inflight,
                   sent, relay, late, failures, signals>>

(* A request is answered, when its body has come and its lookups are done. *)
FinishRequest(r) ==
    /\ r \in inflight \ holding
    /\ inflight' = inflight \ {r}
    /\ UNCHANGED <<catalogue, phase, tries, startEnds, listening, inService, holding,
                   outbox, relay, late, failures, signals>>

BeginPass ==
    /\ relay = "asleep"
    /\ sent < committed
    /\ relay' = "passing"
    /\ UNCHANGED <<catalogue, phase, tries, startEnds, server, outbox, late,
                   failures, signals>>

(* The pass marks what it has sent, or is rolled back: both when the relay *)
(* is stopped in it.                                                       *)
EndPass ==
    /\ relay = "passing"
    /\ relay' = "asleep"
    /\ \E n \in sent..committed : n > sent /\ sent' = n
    /\ UNCHANGED <<catalogue, phase, tries, startEnds, server, committed, late,
                   failures, signals>>

(* The catalogue's reader fails: logged, and the cache stays as it is.     *)
ReaderFails ==
    /\ reading
    /\ Misfortune
    /\ StopReading
    /\ UNCHANGED <<phase, tries, startEnds, server, outbox, relay, late, signals>>

(* The listener or the relay fails: run returns without a shutdown, and    *)
(* leaves the listener open.                                               *)
ComponentFails ==
    /\ Go("serving", "close")
    /\ Misfortune
    /\ relay' = "off"
    /\ late' = TRUE
    /\ UNCHANGED <<catalogue, tries, startEnds, server, outbox, signals>>

-----------------------------------------------------------------------------
(* Shutdown *)

(* SIGTERM: first /readyz says no. *)
Signal ==
    /\ Go("serving", "stopReaders")
    /\ signals < MaxSignals
    /\ signals' = signals + 1
    /\ inService' = FALSE
    /\ UNCHANGED <<catalogue, tries, startEnds, listening, inflight, holding, outbox,
                   relay, late, failures>>

(* Consumers and the catalogue's reader are cancelled and closed. *)
StopReaders ==
    /\ Go("stopReaders", "closeListener")
    /\ StopReading
    /\ UNCHANGED <<tries, startEnds, server, outbox, relay, late, failures, signals>>

CloseListener ==
    /\ Go("closeListener", "drain")
    /\ listening' = FALSE
    /\ UNCHANGED <<catalogue, tries, startEnds, inService, inflight, holding, outbox,
                   relay, late, failures, signals>>

(* Mutated Drain: the requests under way are not waited for. *)
DrainAtOnce ==
    /\ Go("drain", "stopRelay")
    /\ UNCHANGED <<catalogue, tries, startEnds, server, outbox, relay, late, failures,
                   signals>>

(* Shutdown returns when no request is left, or at the deadline. *)
Drain ==
    /\ Go("drain", "stopRelay")
    /\ \/ inflight = {} /\ UNCHANGED late
       \/ inflight # {} /\ late' = TRUE
    /\ UNCHANGED <<catalogue, tries, startEnds, server, outbox, relay, failures,
                   signals>>

(* The relay's context is cancelled: a pass under way commits first or is  *)
(* rolled back, and no other is begun.                                     *)
StopRelay ==
    /\ Go("stopRelay", "close")
    /\ relay' = "off"
    /\ \/ relay = "passing" /\ sent' = committed
       \/ UNCHANGED sent
    /\ UNCHANGED <<catalogue, tries, startEnds, server, committed, late, failures,
                   signals>>

(* The deferred calls: the pool closes when every connection is back.  The *)
(* end of the process cuts off the requests that hold none.                *)
Close ==
    /\ Go("close", "down")
    /\ holding = {}
    /\ listening' = FALSE /\ inService' = FALSE /\ inflight' = {}
    /\ StopReading
    /\ UNCHANGED <<tries, startEnds, holding, outbox, relay, late, failures, signals>>

(* Killed: what was not committed is gone. *)
Crash ==
    /\ phase # "down"
    /\ phase' = "down"
    /\ Misfortune
    /\ listening' = FALSE /\ inService' = FALSE /\ inflight' = {} /\ holding' = {}
    /\ relay' = "off"
    /\ tries' = 0
    /\ late' = TRUE
    /\ StopReading
    /\ UNCHANGED <<startEnds, outbox, signals>>

-----------------------------------------------------------------------------
Boot == Start \/ DialTopic \/ WaitReady \/ (~reading /\ ReplayTimeout) \/ Serve

Shutdown == StopReaders \/ CloseListener \/ Drain \/ StopRelay \/ Close

Read(p) == /\ ReadMessage(p)
           /\ UNCHANGED <<phase, tries, startEnds, server, outbox, relay, late,
                          failures, signals>>

Change(p) == /\ PublishChange(p)
             /\ UNCHANGED <<phase, tries, startEnds, server, outbox, relay, late,
                            failures, signals>>

Next ==
    \/ Boot
    \/ BootFails("dial") \/ BootFails("database")
    \/ ReplayTimeout
    \/ \E p \in Partitions : Read(p) \/ Change(p)
    \/ \E r \in Requests : BeginRequest(r) \/ BeginTx(r) \/ EndTx(r) \/ FinishRequest(r)
    \/ BeginPass \/ EndPass
    \/ ReaderFails \/ ComponentFails \/ Crash
    \/ Signal
    \/ Shutdown

Spec == Init /\ [][Next]_vars

(* Kubernetes restarts the process, goroutines run, a transaction ends.    *)
(* Nothing ends a request that waits for its client: the server limits     *)
(* only the reading of the headers.                                        *)
FairSpec ==
    /\ Spec
    /\ WF_vars(Boot) /\ WF_vars(Shutdown)
    /\ WF_vars(BeginPass) /\ WF_vars(EndPass)
    /\ \A p \in Partitions : WF_vars(Read(p))
    /\ \A r \in Requests : WF_vars(EndTx(r))

-----------------------------------------------------------------------------
(* No request is accepted before every change that was in the topic when   *)
(* the process started is in the cache, whatever could not be decoded and  *)
(* whatever was published meanwhile.                                       *)
ServesCompleteCatalogue ==
    listening => \A p \in Partitions : next[p] >= startEnds[p]

(* Nothing is in the cache of a running process but the log.               *)
CacheFollowsLog == phase \notin {"down", "dial"} => CacheIsLog

(* In an orderly shutdown /readyz has said no before the listener closes,  *)
(* and a shutdown that keeps its deadline cuts no request off, although    *)
(* the listener takes requests until it closes: none is left when the      *)
(* relay is stopped and the database let go of.                            *)
OrderlyStop ==
    /\ phase \in {"drain", "stopRelay"} => ~inService
    /\ phase \in {"stopRelay", "close"} /\ ~late => inflight = {}

(* What a request has committed is sent, by this process or by the next.   *)
CommittedIsSent == \A n \in 1..MaxRows : committed >= n ~> sent >= n

(* A boot that is not hit by a failure ends in service: the replay reaches *)
(* its target although the topic grows and some messages do not decode.    *)
BootSucceeds == phase = "dial" ~> (phase = "serving" \/ failures > 0)

(* What main.go:498-503 says of the shutdown: the relay "is allowed to     *)
(* finish its in-flight pass so an event committed by a request that       *)
(* completed just before shutdown is not stranded until the next pod       *)
(* boots".                                                                 *)
NothingStranded ==
    phase = "down" /\ signals > 0 /\ failures = 0 /\ ~late => sent = committed
=============================================================================
