--------------------------- MODULE MCOutboxRelay ---------------------------
(* Small instances of OutboxRelay. *)
EXTENDS OutboxRelay

CONSTANTS integration, analytics, a1, a2, p1, p2

\* As wired by the composition root: the integration topic first, keyed by
\* the event id; the analytics topic second, keyed by the aggregate.
BothTopics == <<integration, analytics>>

AnalyticsOnly == <<analytics>>

KeyedBy == [t \in TopicSet |-> IF t = integration THEN "event" ELSE "aggregate"]

Hash == [a \in Aggregates |-> p1]
=============================================================================
