------------------------------ MODULE HttpApi ------------------------------
(***************************************************************************)
(* What the REST handlers do around a use case: the checks each one makes, *)
(* in order, before it calls the use case, the errors the use case may     *)
(* return, and the status and problem category every error is answered     *)
(* with.  Bodies, headers and DTOs are left out.                           *)
(***************************************************************************)
EXTENDS Naturals, Sequences, FiniteSets

(* pathIdParam, validatePathId and decodeJSON with the required fields. *)
PathId == {"ErrInvalidPathId"}
KnownPath == {"ErrUnknownPath"}
Body == {"errMalformedBody"}

(* An error that is no sentinel: the database, the event encoder.          *)
Internal == {"internal"}

Routes == {"postChargeForecast", "postShiftPlan", "postWorkUnit", "postRelease",
           "postComplete", "getTelemetry", "getRebalance", "getLaborPlanView",
           "getInventoryView", "getWorkUnit", "getWorkUnitsByReference"}

(* The stages of the writing handlers.  The last stage is the use case.    *)
WriterStages(route) ==
    CASE route = "postChargeForecast" ->
            <<PathId, KnownPath, Body \cup {"ErrInvalidQuantity"},
              {"ErrNoBuckets"} \cup Internal>>
      [] route = "postShiftPlan" ->
            <<PathId, KnownPath, Body, {"ErrInvalidStationCount"}, {"ErrInvalidRate"},
              {"ErrHeadsExceedStations", "ErrInvalidHours", "ErrThroughputNotFinite"}
                  \cup Internal>>
      [] route = "postWorkUnit" ->
            <<PathId, KnownPath, Body, {"ErrEmptyId", "ErrEmptyReference"},
              {"ErrDuplicateEntry", "ErrConcurrentModification"} \cup Internal>>
      [] route = "postRelease" ->
            <<PathId, {"ErrNotFound", "ErrEmptyPool", "ErrWIPLimitReached",
                       "ErrConcurrentModification"} \cup Internal>>
      [] route = "postComplete" ->
            <<{"ErrNotFound", "ErrNotReleased", "ErrAlreadyCompleted",
               "ErrConcurrentModification"} \cup Internal>>

Writers == {"postChargeForecast", "postShiftPlan", "postWorkUnit", "postRelease",
            "postComplete"}

(* getTelemetry and getRebalance publish what they see; getRebalance reads *)
(* the labour view after it has published.                                 *)
Publishers == {"getTelemetry", "getRebalance"}

Found == {"ErrNotFound"} \cup Internal

ReaderStages(route) ==
    CASE route = "getTelemetry"            -> <<PathId, Body, Found>>
      [] route = "getRebalance"            -> <<PathId, Found, Internal>>
      [] route = "getLaborPlanView"        -> <<PathId, Found>>
      [] route = "getInventoryView"        -> <<Found>>
      [] route = "getWorkUnit"             -> <<Found>>
      [] route = "getWorkUnitsByReference" -> <<{"errMissingReference"}, Internal>>

Stages(route) == IF route \in Writers THEN WriterStages(route) ELSE ReaderStages(route)

Errors(route) == UNION {Stages(route)[i] : i \in DOMAIN Stages(route)}

Created == {"postChargeForecast", "postShiftPlan", "postWorkUnit"}

Success(route) == [status |-> IF route \in Created THEN 201 ELSE 200, problem |-> "none"]

(* The stage that answers a request with these faults: the first that      *)
(* finds one, or none.                                                     *)
Stops(route, faults) ==
    {i \in DOMAIN Stages(route) : /\ Stages(route)[i] \cap faults # {}
                                  /\ \A j \in 1..(i - 1) : Stages(route)[j] \cap faults = {}}

-----------------------------------------------------------------------------
(* Errors *)

Malformed == {"errMalformedBody", "errMissingReference"}

Conflicts == {"ErrWIPLimitReached", "ErrConcurrentModification", "ErrDuplicateEntry",
              "ErrEmptyPool", "ErrAlreadyReleased", "ErrAlreadyCompleted",
              "ErrNotReleased"}

Invalid == {"ErrInvalidQuantity", "ErrInvalidRate", "ErrInvalidStationCount",
            "ErrInvalidPathId", "ErrInvalidHours", "ErrUnknownPath", "ErrNoBuckets",
            "ErrUnknownCPT", "ErrHeadsExceedStations", "ErrNoPathPlans",
            "ErrThroughputNotFinite", "ErrEmptyId", "ErrEmptyReference",
            "ErrUnknownEntry"}

StatusFor(e) ==
    CASE e \in Malformed       -> 400
      [] e = "ErrNotFound"     -> 404
      [] e \in Conflicts       -> 409
      [] e \in Invalid         -> 400
      [] OTHER                 -> 500

(* Mutated ProblemCatalog: the newest conflict was not added. *)
ProblemCatalogStale ==
    Malformed \cup Invalid \cup {"ErrNotFound"} \cup (Conflicts \ {"ErrConcurrentModification"})

ProblemCatalog ==
    {"errMalformedBody", "errMissingReference", "ErrNotFound",
     "ErrConcurrentModification", "ErrWIPLimitReached", "ErrAlreadyReleased",
     "ErrDuplicateEntry", "ErrEmptyPool", "ErrAlreadyCompleted", "ErrNotReleased",
     "ErrInvalidQuantity", "ErrInvalidRate", "ErrInvalidStationCount",
     "ErrInvalidPathId", "ErrUnknownPath", "ErrInvalidHours", "ErrNoBuckets",
     "ErrUnknownCPT", "ErrHeadsExceedStations", "ErrNoPathPlans",
     "ErrThroughputNotFinite", "ErrEmptyId", "ErrEmptyReference", "ErrUnknownEntry"}

ProblemFor(e) == IF e \in ProblemCatalog THEN "listed" ELSE "internal-error"

(* writeError *)
Refusal(e) == [status |-> StatusFor(e), problem |-> ProblemFor(e)]

ServerError == Refusal("internal")
=============================================================================
