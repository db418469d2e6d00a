--------------------------- MODULE IdempotencyKey ---------------------------
(***************************************************************************)
(* POST /paths/{pathId}/work-units behind RequireIdempotencyKey, and the   *)
(* other routes beside it.                                                 *)
(*                                                                         *)
(* The middleware begins a transaction, inserts the key, runs the handler  *)
(* in the same transaction (EnqueueWorkUnit's unit of work joins it),      *)
(* records the handler's answer in the key's row, commits, and only then   *)
(* answers.  A second request with the key waits at its insert until the   *)
(* first one has committed or rolled back.  Clients resend what they have  *)
(* no answer to, at any time: the first request may still be running.      *)
(*                                                                         *)
(* A transaction's writes are not visible before its commit; here they are *)
(* made by the commit, and the locks the statements take are state: holder *)
(* for the key's row, saver for the pool's.  The pool is read in one step: *)
(* WorkPlanning has the two statements.                                    *)
(***************************************************************************)
EXTENDS HttpApi

CONSTANTS Keys,         \* idempotency keys
          Commands,     \* what clients send: key, unit (the body) and faults
          WorkUnits,    \* the work unit ids the commands create
          Calls,        \* request goroutines
          MaxAttempts,  \* maxPoolSaveAttempts, 12 in the code
          MaxOthers,    \* saves of the pool by requests that are not modelled
          MaxFailures,  \* statements that fail, lost commits
          NoCall, NoCommand

(* What can be wrong with a request itself: all but the last stage, which  *)
(* is the use case's.                                                      *)
RequestFaults == UNION {WriterStages("postWorkUnit")[i] : i \in 1..4}

ASSUME KeyAssumption ==
    /\ Commands \subseteq [key : Keys, unit : WorkUnits, faults : SUBSET RequestFaults]
    /\ NoCall \notin Calls
    /\ NoCommand \notin Commands
    /\ MaxAttempts \in Nat \ {0} /\ MaxOthers \in Nat /\ MaxFailures \in Nat

VARIABLES row,      \* the committed rows of idempotency_keys: body hash, answer
          holder,   \* who has inserted the key and not yet committed
          pool,     \* the committed work pool: version, units
          saver,    \* who has saved the pool and not yet committed
          created,  \* the committed WorkUnitCreated events of each unit
          at,       \* what each goroutine does next
          call,     \* what it knows
          got,      \* the answers that have settled a command for its client
          others, failures

store == <<row, holder, pool, saver, created>>
vars  == <<store, at, call, got, others, failures>>

NoAnswer == [status |-> 0, problem |-> "none"]
NoRow   == [unit |-> "none", answer |-> NoAnswer]
Blank   == [cmd |-> NoCommand, seen |-> 0, tries |-> 0, answer |-> NoAnswer, wrote |-> FALSE]
Open    == {"readPool", "save", "record"}
Labels  == Open \cup {"idle", "insert", "handle", "replay", "answered"}

KeyReused == [status |-> 422, problem |-> "listed"]
NoHeader  == [status |-> 400, problem |-> "listed"]
Answers   == {KeyReused, ServerError, Success("getWorkUnit"), Success("postWorkUnit")}
                 \cup {Refusal(e) : e \in ProblemCatalog}

(* The type invariant: only the owner of a key's lock is past its insert,  *)
(* and only past its save does a call hold the pool.                       *)
TypeOK ==
    /\ row \in [Keys -> {NoRow} \cup [unit : WorkUnits, answer : Answers \cup {NoAnswer}]]
    /\ holder \in [Keys -> Calls \cup {NoCall}]
    /\ pool \in [version : Nat, units : SUBSET WorkUnits]
    /\ saver \in Calls \cup {NoCall}
    /\ created \in [WorkUnits -> Nat]
    /\ at \in [Calls -> Labels]
    /\ \A c \in Calls :
          /\ at[c] \in Open \cup {"handle"} <=> \E k \in Keys : holder[k] = c
          /\ saver = c => at[c] = "record"
          /\ call[c].tries < MaxAttempts

Init ==
    /\ row = [k \in Keys |-> NoRow]
    /\ holder = [k \in Keys |-> NoCall]
    /\ pool = [version |-> 0, units |-> {}]
    /\ saver = NoCall
    /\ created = [w \in WorkUnits |-> 0]
    /\ at = [c \in Calls |-> "idle"]
    /\ call = [c \in Calls |-> Blank]
    /\ got = [m \in Commands |-> {}]
    /\ others = 0
    /\ failures = 0

Goto(c, label) == at' = [at EXCEPT ![c] = label]
Key(c)  == call[c].cmd.key
Unit(c) == call[c].cmd.unit

(* What the client will be told. *)
Answer(c, a, wrote) ==
    /\ Goto(c, "answered")
    /\ call' = [call EXCEPT ![c].answer = a, ![c].wrote = wrote]

(* A transaction that ends lets go of its locks. *)
Release(c) ==
    /\ holder' = [k \in Keys |-> IF holder[k] = c THEN NoCall ELSE holder[k]]
    /\ saver' = IF saver = c THEN NoCall ELSE saver

Rollback(c) == Release(c) /\ UNCHANGED <<row, pool, created>>

-----------------------------------------------------------------------------
(* Clients *)

(* Answers after which a client does not resend. *)
Settles(a) == a.status # 500

Send(c, m) ==
    /\ at[c] = "idle"
    /\ Goto(c, "insert")
    /\ call' = [call EXCEPT ![c].cmd = m]
    /\ UNCHANGED <<store, got, others, failures>>

Resend(m) == /\ got[m] = {}
             /\ \E c \in Calls : Send(c, m)

(* Without the header nothing is begun. *)
SendWithoutKey(c) ==
    /\ at[c] = "idle"
    /\ Answer(c, NoHeader, FALSE)
    /\ UNCHANGED <<store, got, others, failures>>

(* The answer arrives, or is lost on the way. *)
Reply(c) ==
    /\ at[c] = "answered"
    /\ Goto(c, "idle")
    /\ call' = [call EXCEPT ![c] = Blank]
    /\ LET m == call[c].cmd
           a == call[c].answer
       IN  got' = IF m # NoCommand /\ Settles(a) THEN [got EXCEPT ![m] = @ \cup {a}] ELSE got
    /\ UNCHANGED <<store, others, failures>>

(* The client hangs up, its timeout passes, or the process dies: what is   *)
(* not committed is rolled back, and nobody is answered.                   *)
Abandon(c) ==
    /\ at[c] # "idle"
    /\ failures < MaxFailures
    /\ failures' = failures + 1
    /\ Goto(c, "idle")
    /\ call' = [call EXCEPT ![c] = Blank]
    /\ Rollback(c)
    /\ UNCHANGED <<got, others>>

(* A request on a route without a key: the checks and the use case, seen   *)
(* as one step.  A server error may come after the commit.                 *)
ServeDirect(c, route, faults) ==
    /\ at[c] = "idle"
    /\ route # "postWorkUnit"
    /\ LET stop == Stops(route, faults)
           last == Len(Stages(route))
       IN  \/ /\ stop = {}
              /\ Answer(c, Success(route), route \in Writers \cup Publishers)
           \/ \E i \in stop : \E e \in Stages(route)[i] \cap faults :
                 \E wrote \in {FALSE, (e \in Internal /\ route \in Writers \cup Publishers)} :
                    Answer(c, Refusal(e), wrote)
    /\ UNCHANGED <<store, got, others, failures>>

-----------------------------------------------------------------------------
(* The middleware *)

(* INSERT ... ON CONFLICT DO NOTHING waits while another transaction has   *)
(* inserted the key; then its row is there, or the key is this call's.     *)
Insert(c) ==
    /\ at[c] = "insert"
    /\ holder[Key(c)] = NoCall
    /\ IF row[Key(c)] # NoRow
       THEN Goto(c, "replay") /\ UNCHANGED holder
       ELSE Goto(c, "handle") /\ holder' = [holder EXCEPT ![Key(c)] = c]
    /\ UNCHANGED <<row, pool, saver, created, call, got, others, failures>>

(* replayCachedResponse: another body is refused, the same one gets the    *)
(* recorded answer.  A row without one is an internal error.               *)
Replay(c) ==
    /\ at[c] = "replay"
    /\ LET r == row[Key(c)]
       IN  \/ r = NoRow /\ Answer(c, ServerError, FALSE)
           \/ /\ r # NoRow /\ r.unit # Unit(c)
              /\ Answer(c, KeyReused, FALSE)
           \/ /\ r # NoRow /\ r.unit = Unit(c)
              /\ Answer(c, IF r.answer = NoAnswer THEN ServerError ELSE r.answer, FALSE)
    /\ UNCHANGED <<store, got, others, failures>>

(* The handler has its answer: it is in the recorder, not with the client. *)
Recorded(c, a) ==
    /\ Goto(c, "record")
    /\ call' = [call EXCEPT ![c].answer = a]

(* postWorkUnit up to its use case. *)
Handle(c) ==
    /\ at[c] = "handle"
    /\ LET faults == call[c].cmd.faults
       IN  \/ \E i \in Stops("postWorkUnit", faults) :
                 \E e \in Stages("postWorkUnit")[i] \cap faults : Recorded(c, Refusal(e))
           \/ /\ Stops("postWorkUnit", faults) = {}
              /\ Goto(c, "readPool")
              /\ UNCHANGED call
    /\ UNCHANGED <<store, got, others, failures>>

ReadPool(c) ==
    /\ at[c] = "readPool"
    /\ IF Unit(c) \in pool.units
       THEN Recorded(c, Refusal("ErrDuplicateEntry"))
       ELSE Goto(c, "save") /\ call' = [call EXCEPT ![c].seen = pool.version]
    /\ UNCHANGED <<store, got, others, failures>>

(* The version-guarded save, the upsert of the unit and the outbox row,    *)
(* once the transaction that has the pool's row is over; a lost race tries *)
(* again in the same transaction.                                          *)
Save(c) ==
    /\ at[c] = "save"
    /\ saver = NoCall
    /\ \/ /\ pool.version = call[c].seen
          /\ saver' = c
          /\ Recorded(c, Success("postWorkUnit"))
       \/ /\ pool.version # call[c].seen
          /\ call[c].tries + 1 < MaxAttempts
          /\ Goto(c, "readPool")
          /\ call' = [call EXCEPT ![c].tries = @ + 1]
          /\ UNCHANGED saver
       \/ /\ pool.version # call[c].seen
          /\ call[c].tries + 1 = MaxAttempts
          /\ Recorded(c, Refusal("ErrConcurrentModification"))
          /\ UNCHANGED saver
    /\ UNCHANGED <<row, holder, pool, created, got, others, failures>>

(* The answer goes into the row, and everything becomes visible. *)
CommitTx(c) ==
    /\ at[c] = "record"
    /\ row' = [row EXCEPT ![Key(c)] = [unit |-> Unit(c), answer |-> call[c].answer]]
    /\ IF saver = c
       THEN /\ pool' = [version |-> pool.version + 1, units |-> pool.units \cup {Unit(c)}]
            /\ created' = [created EXCEPT ![Unit(c)] = @ + 1]
       ELSE UNCHANGED <<pool, created>>
    /\ Release(c)

(* Mutated Record: a refusal is not recorded. *)
RecordSuccessOnly(c) ==
    /\ at[c] = "record"
    /\ IF call[c].answer.status = 201 THEN CommitTx(c) ELSE Rollback(c)
    /\ Answer(c, call[c].answer, saver = c)
    /\ UNCHANGED <<got, others, failures>>

Record(c) ==
    /\ CommitTx(c)
    /\ Answer(c, call[c].answer, saver = c)
    /\ UNCHANGED <<got, others, failures>>

(* Mutated Fail: the error of a statement is the handler's, the key is     *)
(* committed with it.                                                      *)
FailRecorded(c) ==
    /\ at[c] \in Open \cup {"insert", "handle", "replay"}
    /\ failures < MaxFailures
    /\ failures' = failures + 1
    /\ row' = [row EXCEPT ![Key(c)] = [unit |-> Unit(c), answer |-> ServerError]]
    /\ Release(c)
    /\ Answer(c, ServerError, FALSE)
    /\ UNCHANGED <<pool, created, got, others>>

(* Mutated Fail: the transaction is left open. *)
FailKeepingKey(c) ==
    /\ at[c] \in Open \cup {"insert", "handle", "replay"}
    /\ failures < MaxFailures
    /\ failures' = failures + 1
    /\ Answer(c, ServerError, FALSE)
    /\ UNCHANGED <<store, got, others>>

(* A statement fails: after it the transaction takes no other, so the      *)
(* outcome cannot be recorded either, and all is rolled back.  A panic of  *)
(* the handler ends the same way.                                          *)
Fail(c) ==
    /\ at[c] \in Open \cup {"insert", "handle", "replay"}
    /\ failures < MaxFailures
    /\ failures' = failures + 1
    /\ Rollback(c)
    /\ Answer(c, ServerError, FALSE)
    /\ UNCHANGED <<got, others>>

(* The commit takes effect, but its confirmation is lost: a server error.  *)
LoseCommit(c) ==
    /\ failures < MaxFailures
    /\ failures' = failures + 1
    /\ CommitTx(c)
    /\ Answer(c, ServerError, TRUE)
    /\ UNCHANGED <<got, others>>

(* A release, a completion or an inbound order saves the pool. *)
OtherSave ==
    /\ others < MaxOthers
    /\ saver = NoCall
    /\ others' = others + 1
    /\ pool' = [pool EXCEPT !.version = @ + 1]
    /\ UNCHANGED <<row, holder, saver, created, at, call, got, failures>>

-----------------------------------------------------------------------------
Step(c) ==
    \/ Insert(c)
    \/ Replay(c)
    \/ Handle(c)
    \/ ReadPool(c)
    \/ Save(c)
    \/ Record(c)
    \/ Reply(c)

Next ==
    \/ \E c \in Calls :
          \/ Step(c)
          \/ \E m \in Commands : Send(c, m)
          \/ SendWithoutKey(c)
          \/ \E r \in Routes : \E e \in Errors(r) \cup {"none"} : ServeDirect(c, r, {e})
          \/ Abandon(c)
          \/ Fail(c)
          \/ LoseCommit(c)
    \/ OtherSave

Spec == Init /\ [][Next]_vars

(* A request runs to its answer; a client that has no answer sends again.  *)
FairSpec ==
    /\ Spec
    /\ \A c \in Calls : WF_vars(Step(c))
    /\ \A m \in Commands : SF_vars(Resend(m))

-----------------------------------------------------------------------------
(* Every answer but a server error is final for its command, whatever is   *)
(* resent, overtaken, abandoned or lost: the client that created the unit  *)
(* is never told that it is a duplicate, or that its key is another's.     *)
OneAnswer == \A m \in Commands : Cardinality(got[m]) <= 1

(* An answer is true.  What has been answered 201, from the row or by the  *)
(* request that ran, has created its unit, announced once; a 4xx, also a   *)
(* replayed one, was given by a request that changed nothing; a problem    *)
(* is "internal" exactly when its status is 500.                           *)
AnswerIsTrue ==
    \A c \in Calls : at[c] = "answered" =>
        LET a == call[c].answer
            m == call[c].cmd
        IN  /\ a.status = 201 /\ m # NoCommand => m.unit \in pool.units
            /\ a.status \in 400..499 => ~call[c].wrote
            /\ a.status = 500 <=> a.problem = "internal-error"

(* The middleware's invariant: no key is committed without its outcome,    *)
(* an outcome is never a server error, and 201 is recorded for exactly the *)
(* units that exist, one key and one event each.                           *)
OutcomeMatchesEffect ==
    /\ \A k \in Keys : row[k] # NoRow => row[k].answer # NoAnswer /\ Settles(row[k].answer)
    /\ \A w \in WorkUnits :
          LET by == {k \in Keys : row[k] # NoRow /\ row[k].unit = w
                                     /\ row[k].answer = Success("postWorkUnit")}
          IN  /\ created[w] = Cardinality(by)
              /\ created[w] = IF w \in pool.units THEN 1 ELSE 0

(* A client that keeps asking gets an answer it can act on: the waits for  *)
(* the key and for the pool end, and no failure leaves a key that can be   *)
(* neither used nor replayed.                                              *)
EveryCommandSettled == \A m \in Commands : <>(got[m] # {})
=============================================================================
