--------------------------- MODULE CircuitBreaker ---------------------------
(***************************************************************************)
(* The circuit breaker in front of each looked-up dependency, as the       *)
(* operations on its state.  The breaker is the gobreaker library's, with  *)
(* this service's settings: one probe when half open, a window after which *)
(* the counts start anew, the trip condition of internal/resilience, and   *)
(* cancelled calls left out of the counts.                                 *)
(*                                                                         *)
(* An epoch ends with a change of state or a window; what a call of an     *)
(* earlier epoch comes to is not counted.                                  *)
(***************************************************************************)
EXTENDS Naturals

CONSTANTS TripStreak,   \* consecutive failures that trip it, 5 in the code
          MinVolume     \* minRequestVolumeForErrorRate, 10 in the code

ASSUME BreakerAssumption == {TripStreak, MinVolume} \subseteq Nat \ {0}

MaxRequests == 1

Fresh(state, epoch) ==
    [state |-> state, epoch |-> epoch, requests |-> 0, failed |-> 0, streak |-> 0]

NewBreaker == Fresh("closed", 0)

Breakers == [state : {"closed", "halfOpen", "open"},
             epoch : Nat, requests : Nat, failed : Nat, streak : Nat]

(* A streak of failures, or more than half of a fair number of requests. *)
ReadyToTrip(b) ==
    \/ b.streak >= TripStreak
    \/ b.requests >= MinVolume /\ 2 * b.failed > b.requests

(* The least number of failures that trips a breaker. *)
FewestToTrip ==
    LET half == (MinVolume \div 2) + 1
    IN  IF half < TripStreak THEN half ELSE TripStreak

Admits(b) ==
    \/ b.state = "closed"
    \/ b.state = "halfOpen" /\ b.requests < MaxRequests

Admitted(b) == [b EXCEPT !.requests = @ + 1]

Succeeded(b, epoch) ==
    IF b.epoch # epoch THEN b
    ELSE IF b.state = "halfOpen" THEN Fresh("closed", epoch + 1)
    ELSE [b EXCEPT !.streak = 0]

Failed(b, epoch) ==
    LET counted == [b EXCEPT !.failed = @ + 1, !.streak = @ + 1]
    IN  IF b.epoch # epoch THEN b
        ELSE IF b.state = "halfOpen" \/ ReadyToTrip(counted) THEN Fresh("open", epoch + 1)
        ELSE counted

(* What becomes of a cancelled call's place among the requests is the      *)
(* library's affair: it may be given back or not.                          *)
Excluded(b, epoch) ==
    IF b.epoch = epoch THEN {b, [b EXCEPT !.requests = @ - 1]} ELSE {b}

(* The window of a closed breaker, and the cool-down of an open one, end. *)
WindowEnded(b) == Fresh("closed", b.epoch + 1)
CooledDown(b)  == Fresh("halfOpen", b.epoch + 1)
=============================================================================
