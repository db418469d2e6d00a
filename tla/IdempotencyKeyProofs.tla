------------------------ MODULE IdempotencyKeyProofs ------------------------
(***************************************************************************)
(* Proofs about IdempotencyKey, for any number of calls, keys, commands    *)
(* and units, any retry budget and any number of failures.                 *)
(*                                                                         *)
(* Inv       types; a key has the owner that is past its insert; no row    *)
(*           while it is owned                                             *)
(* FinalOK   every answer that settles a command is what its row says      *)
(* EffectOK  201 in a row, a unit in the pool and its event go together,   *)
(*           and a call about to save knows if its unit is still missing   *)
(* ToldOK    what a call is about to tell is true of its own effect        *)
(***************************************************************************)
EXTENDS IdempotencyKey, FiniteSetTheorems, TLAPS

-----------------------------------------------------------------------------
(* Answers *)

Reply4xx == 400..499
Replied  == [status : Nat, problem : {"none", "listed", "internal-error"}]
Refused  == RequestFaults \cup {"ErrDuplicateEntry", "ErrConcurrentModification"}

(* What the middleware records. *)
Outcomes == {Success("postWorkUnit")} \cup {Refusal(e) : e \in Refused}

(* The faults of a request, one by one. *)
LEMMA RequestFaultsAre ==
  RequestFaults = {"ErrInvalidPathId", "ErrUnknownPath", "errMalformedBody",
                   "ErrEmptyId", "ErrEmptyReference"}
  <1>1. WriterStages("postWorkUnit")
           = <<PathId, KnownPath, Body, {"ErrEmptyId", "ErrEmptyReference"},
               {"ErrDuplicateEntry", "ErrConcurrentModification"} \cup Internal>>
    BY DEF WriterStages
  <1>2. /\ WriterStages("postWorkUnit")[1] = {"ErrInvalidPathId"}
        /\ WriterStages("postWorkUnit")[2] = {"ErrUnknownPath"}
        /\ WriterStages("postWorkUnit")[3] = {"errMalformedBody"}
        /\ WriterStages("postWorkUnit")[4] = {"ErrEmptyId", "ErrEmptyReference"}
    BY <1>1 DEF PathId, KnownPath, Body
  <1>3. 1..4 = {1, 2, 3, 4}
    OBVIOUS
  <1> QED
    BY <1>2, <1>3 DEF RequestFaults

(* An answer to an error has a status, and is "internal" with 500 only.    *)
LEMMA RefusalIs ==
  ASSUME NEW e
  PROVE  /\ Refusal(e) \in Replied
         /\ Refusal(e).status \in {400, 404, 409, 500}
         /\ Refusal(e).status = 500 <=> Refusal(e).problem = "internal-error"
  <1>1. e \in ProblemCatalog <=> e \in Malformed \cup {"ErrNotFound"} \cup Conflicts \cup Invalid
    BY DEF ProblemCatalog, Malformed, Conflicts, Invalid
  <1>2. StatusFor(e) \in {400, 404, 409, 500}
    BY DEF StatusFor
  <1>3. StatusFor(e) = 500 <=> e \notin Malformed \cup {"ErrNotFound"} \cup Conflicts \cup Invalid
    BY DEF StatusFor
  <1>4. ProblemFor(e) = (IF e \in ProblemCatalog THEN "listed" ELSE "internal-error")
    BY DEF ProblemFor
  <1>5. Refusal(e).status = StatusFor(e) /\ Refusal(e).problem = ProblemFor(e)
    BY DEF Refusal
  <1>6. Refusal(e) \in Replied
    <2>1. StatusFor(e) \in Nat /\ ProblemFor(e) \in {"listed", "internal-error"}
      BY <1>2, <1>4
    <2> QED
      BY <2>1 DEF Refusal, Replied
  <1> QED
    BY <1>1, <1>2, <1>3, <1>4, <1>5, <1>6

(* A refused request is the client's fault, and never an internal error. *)
LEMMA RefusedIs4xx ==
  ASSUME NEW e \in Refused
  PROVE  /\ e \in ProblemCatalog
         /\ Refusal(e).status \in Reply4xx
         /\ Refusal(e).status # 500
  <1>1. e \in ProblemCatalog
    BY RequestFaultsAre DEF Refused, ProblemCatalog
  <1>2. ProblemFor(e) # "internal-error"
    BY <1>1 DEF ProblemFor
  <1>3. Refusal(e).problem = ProblemFor(e)
    BY DEF Refusal
  <1> QED
    BY <1>1, <1>2, <1>3, RefusalIs DEF Reply4xx

(* A success is 200 or 201. *)
LEMMA SuccessIs ==
  ASSUME NEW r
  PROVE  /\ Success(r) \in Replied
         /\ Success(r).status \in {200, 201} /\ Success(r).problem = "none"
  <1>1. CASE r \in Created
    <2>1. Success(r) = [status |-> 201, problem |-> "none"]
      BY <1>1 DEF Success
    <2> QED
      BY <2>1 DEF Replied
  <1>2. CASE r \notin Created
    <2>1. Success(r) = [status |-> 200, problem |-> "none"]
      BY <1>2 DEF Success
    <2> QED
      BY <2>1 DEF Replied
  <1> QED
    BY <1>1, <1>2

(* The other answers. *)
LEMMA OtherAnswers ==
  /\ ServerError \in Replied /\ ServerError.status = 500
  /\ ServerError.problem = "internal-error"
  /\ Success("postWorkUnit").status = 201
  /\ KeyReused \in Replied /\ KeyReused.status = 422 /\ KeyReused.problem = "listed"
  /\ NoHeader \in Replied /\ NoHeader.status = 400 /\ NoHeader.problem = "listed"
  /\ NoAnswer \in Replied /\ NoAnswer.status = 0
  <1>1. /\ ServerError \in Replied /\ ServerError.status = 500
        /\ ServerError.problem = "internal-error"
    <2>1. "internal" \notin ProblemCatalog
      BY DEF ProblemCatalog
    <2>2. ServerError = Refusal("internal") /\ ServerError.problem = "internal-error"
      BY <2>1 DEF ServerError, Refusal, ProblemFor
    <2> QED
      BY <2>2, RefusalIs
  <1>2. Success("postWorkUnit").status = 201
    BY DEF Success, Created
  <1> QED
    BY <1>1, <1>2 DEF KeyReused, NoHeader, NoAnswer, Replied

(* What is recorded is an answer, final, and either 201 or a refusal.      *)
LEMMA OutcomeIs ==
  ASSUME NEW a \in Outcomes
  PROVE  /\ a \in Replied /\ a \in Answers
         /\ a.status # 0 /\ a.status # 500 /\ a # NoAnswer /\ a # ServerError
         /\ Settles(a)
         /\ a.status = 201 <=> a = Success("postWorkUnit")
         /\ a # Success("postWorkUnit") => a.status \in Reply4xx
  <1>1. CASE a = Success("postWorkUnit")
    BY <1>1, SuccessIs, OtherAnswers DEF Answers, Settles
  <1>2. CASE \E e \in Refused : a = Refusal(e)
    BY <1>2, RefusalIs, RefusedIs4xx, OtherAnswers DEF Answers, Settles, Reply4xx
  <1> QED
    BY <1>1, <1>2 DEF Outcomes

(* An outcome is "internal" exactly with a 500, that is, never.             *)
LEMMA OutcomeProblem ==
  ASSUME NEW a \in Outcomes
  PROVE  a.status = 500 <=> a.problem = "internal-error"
  BY SuccessIs, RefusalIs DEF Outcomes

-----------------------------------------------------------------------------
(* Types and locks *)

Owning  == Open \cup {"handle"}
Rows    == {NoRow} \cup [unit : WorkUnits, answer : Outcomes]
Records == [cmd : Commands \cup {NoCommand}, seen : Nat, tries : 0..(MaxAttempts - 1),
            answer : Replied, wrote : BOOLEAN]

StoreOK ==
    /\ row \in [Keys -> Rows]
    /\ holder \in [Keys -> Calls \cup {NoCall}]
    /\ pool \in [version : Nat, units : SUBSET WorkUnits]
    /\ saver \in Calls \cup {NoCall}
    /\ created \in [WorkUnits -> Nat]

(* What a call knows at a label. *)
Sound(l, k) ==
    /\ l = "idle" => k = Blank
    /\ l \notin {"idle", "answered"} => k.cmd \in Commands
    /\ l = "record" => k.answer \in Outcomes

CallsOK ==
    /\ at \in [Calls -> Labels]
    /\ call \in [Calls -> Records]
    /\ \A c \in Calls : Sound(at[c], call[c])

(* Who is past its insert has its key, nobody else has it, and the key is  *)
(* then not in the table; who replays finds it there.                      *)
LocksOK ==
    /\ \A k \in Keys, c \in Calls : holder[k] = c <=> at[c] \in Owning /\ Key(c) = k
    /\ \A k \in Keys : holder[k] # NoCall => row[k] = NoRow
    /\ \A c \in Calls : saver = c => at[c] = "record"
    /\ \A c \in Calls : at[c] = "replay" => row[Key(c)] # NoRow

Inv == StoreOK /\ CallsOK /\ LocksOK

(* A command's key and unit are of their types. *)
LEMMA CommandIs ==
  ASSUME NEW m \in Commands
  PROVE  m.key \in Keys /\ m.unit \in WorkUnits /\ m.faults \subseteq RequestFaults
  BY KeyAssumption

(* NoCall and NoCommand are nobody's; a blank record is one; an outcome in *)
(* a row makes it a row.                                                   *)
LEMMA NobodyIs ==
  /\ NoCall \notin Calls
  /\ NoCommand \notin Commands
  /\ Blank \in Records
  /\ NoRow \in Rows
  /\ \A u \in WorkUnits, a \in Outcomes :
        [unit |-> u, answer |-> a] \in Rows /\ [unit |-> u, answer |-> a] # NoRow
  <1>1. NoCall \notin Calls /\ NoCommand \notin Commands /\ MaxAttempts \in Nat \ {0}
    BY KeyAssumption
  <1>2. Blank \in Records
    BY <1>1, OtherAnswers DEF Blank, Records
  <1>3. \A u \in WorkUnits, a \in Outcomes :
           [unit |-> u, answer |-> a] \in Rows /\ [unit |-> u, answer |-> a] # NoRow
    BY OutcomeIs DEF Rows, NoRow
  <1> QED
    BY <1>1, <1>2, <1>3 DEF Rows

(* Call c goes on to label l with the record k. *)
Moves(c, l, k) ==
    /\ at' = [at EXCEPT ![c] = l]
    /\ call' = [call EXCEPT ![c] = k]

(* A move to a label whose record is sound keeps all records sound.        *)
LEMMA CallsStep ==
  ASSUME CallsOK, NEW c \in Calls, NEW l \in Labels, NEW k \in Records, Sound(l, k),
         Moves(c, l, k)
  PROVE  CallsOK'
  BY DEF CallsOK, Moves, Sound

(* Locks are kept by a step that takes none of a key ... *)
LEMMA LocksKept ==
  ASSUME Inv, NEW c \in Calls, NEW l, NEW k, Moves(c, l, k),
         UNCHANGED <<row, holder>>,
         l \in Owning <=> at[c] \in Owning,
         l \in Owning => k.cmd = call[c].cmd,
         saver' \in {saver, c}, saver' = c => l = "record",
         l = "replay" => row[k.cmd.key] # NoRow
  PROVE  LocksOK'
  BY DEF Inv, CallsOK, LocksOK, Moves, Key

(* ... and by one that ends a transaction. *)
LEMMA LocksReleased ==
  ASSUME Inv, NEW c \in Calls, NEW l, NEW k, Moves(c, l, k), Release(c),
         l \notin Owning \cup {"replay"},
         \/ row' = row
         \/ /\ at[c] \in Owning
            /\ \E r : r # NoRow /\ row' = [row EXCEPT ![Key(c)] = r]
  PROVE  LocksOK'
  <1>1. /\ holder \in [Keys -> Calls \cup {NoCall}] /\ at \in [Calls -> Labels]
        /\ call \in [Calls -> Records] /\ row \in [Keys -> Rows] /\ LocksOK
    BY DEF Inv, StoreOK, CallsOK
  <1>2. \A d \in Calls : d # c => at'[d] = at[d] /\ Key(d)' = Key(d)
    BY <1>1 DEF Moves, Key
  <1>3. at'[c] = l /\ l \notin Owning
    BY <1>1 DEF Moves
  <1>4. \A q \in Keys : holder'[q] = IF holder[q] = c THEN NoCall ELSE holder[q]
    BY DEF Release
  <1>5. ASSUME NEW q \in Keys, NEW d \in Calls
        PROVE  holder'[q] = d <=> at'[d] \in Owning /\ Key(d)' = q
    <2>1. CASE d = c
      BY <2>1, <1>3, <1>4, NobodyIs
    <2>2. CASE d # c
      BY <2>2, <1>1, <1>2, <1>4, NobodyIs DEF LocksOK
    <2> QED
      BY <2>1, <2>2
  <1>6. ASSUME NEW q \in Keys, holder'[q] # NoCall
        PROVE  row'[q] = NoRow
    <2>1. holder[q] # c /\ holder[q] # NoCall
      BY <1>4, <1>6
    <2>2. row[q] = NoRow
      BY <1>1, <2>1 DEF LocksOK
    <2>3. at[c] \in Owning => q # Key(c)
      BY <1>1, <2>1 DEF LocksOK
    <2> QED
      BY <1>1, <2>2, <2>3
  <1>7. \A d \in Calls : saver' = d => at'[d] = "record"
    BY <1>1, <1>2, NobodyIs DEF Release, LocksOK
  <1>8. ASSUME NEW d \in Calls, at'[d] = "replay"
        PROVE  row'[Key(d)'] # NoRow
    <2>1. d # c
      BY <1>3, <1>8, <1>1 DEF Moves
    <2>2. row[Key(d)] # NoRow /\ Key(d)' = Key(d)
      BY <1>1, <1>2, <1>8, <2>1 DEF LocksOK
    <2>3. Key(d) \in Keys
      BY <1>1, <1>2, <1>8, <2>1, CommandIs DEF Inv, CallsOK, Sound, Key
    <2> QED
      BY <2>2, <2>3, <1>1
  <1> QED
    BY <1>5, <1>6, <1>7, <1>8 DEF LocksOK

(* What is known of a call. *)
LEMMA CallIs ==
  ASSUME Inv, NEW c \in Calls
  PROVE  /\ at[c] \in Labels /\ call[c] \in Records /\ Sound(at[c], call[c])
         /\ at[c] \notin {"idle", "answered"} => Key(c) \in Keys /\ Unit(c) \in WorkUnits
  <1>1. at[c] \in Labels /\ call[c] \in Records /\ Sound(at[c], call[c])
    BY DEF Inv, CallsOK
  <1> QED
    BY <1>1, CommandIs DEF Sound, Key, Unit

(* The locks let go of are locks still. *)
LEMMA ReleaseIs ==
  ASSUME Inv, NEW c \in Calls, Release(c)
  PROVE  holder' \in [Keys -> Calls \cup {NoCall}] /\ saver' \in Calls \cup {NoCall}
  BY DEF Inv, StoreOK, Release

(* An answer is a move. *)
LEMMA AnswerMoves ==
  ASSUME Inv, NEW c \in Calls, NEW a \in Replied, NEW w \in BOOLEAN, Answer(c, a, w)
  PROVE  LET k == [call[c] EXCEPT !.answer = a, !.wrote = w]
         IN  Moves(c, "answered", k) /\ k \in Records /\ Sound("answered", k)
             /\ k.cmd = call[c].cmd
  <1> DEFINE k == [call[c] EXCEPT !.answer = a, !.wrote = w]
  <1>1. call[c] \in Records /\ call \in [Calls -> Records]
    BY DEF Inv, CallsOK
  <1>2. k \in Records /\ k.cmd = call[c].cmd
    BY <1>1 DEF Records
  <1>3. call' = [call EXCEPT ![c] = k]
    BY <1>1 DEF Answer, Records
  <1>4. Moves(c, "answered", k)
    BY <1>3 DEF Moves, Answer, Goto
  <1> QED
    BY <1>2, <1>4 DEF Sound

(* An answer given outside a transaction, at its end, or by its commit.    *)
LEMMA AnswerOutside ==
  ASSUME Inv, NEW c \in Calls, NEW a \in Replied, NEW w \in BOOLEAN, Answer(c, a, w),
         at[c] \notin Owning, UNCHANGED store
  PROVE  Inv'
  <1> DEFINE k == [call[c] EXCEPT !.answer = a, !.wrote = w]
  <1>1. Moves(c, "answered", k) /\ k \in Records /\ Sound("answered", k)
    BY AnswerMoves
  <1>2. CallsOK'
    BY <1>1, CallsStep DEF Inv, Labels
  <1>3. LocksOK'
    <2>1. saver' \in {saver, c} /\ (saver' = c => "answered" = "record")
      BY DEF store, Inv, LocksOK, Owning, Open
    <2>2. "answered" \in Owning <=> at[c] \in Owning
      BY DEF Owning, Open
    <2>3. "answered" \in Owning => k.cmd = call[c].cmd
      BY DEF Owning, Open
    <2> HIDE DEF k
    <2> QED
      BY <1>1, <2>1, <2>2, <2>3, LocksKept DEF store
  <1>4. StoreOK'
    BY DEF Inv, StoreOK, store
  <1> QED
    BY <1>2, <1>3, <1>4 DEF Inv

(* A rollback keeps types and locks, wherever the call goes on to.         *)
LEMMA MoveAndRollback ==
  ASSUME Inv, NEW c \in Calls, NEW l \in {"idle", "answered"}, NEW k \in Records,
         Sound(l, k), Moves(c, l, k), Rollback(c)
  PROVE  Inv'
  <1>1. CallsOK'
    BY CallsStep DEF Inv, Labels
  <1>2. LocksOK'
    <2>1. l \notin Owning \cup {"replay"}
      BY DEF Owning, Open
    <2> QED
      BY <2>1, LocksReleased DEF Rollback
  <1>3. StoreOK'
    BY ReleaseIs DEF Inv, StoreOK, Rollback
  <1> QED
    BY <1>1, <1>2, <1>3 DEF Inv

(* An answer given after a rollback keeps them too ...                     *)
LEMMA AnswerRolledBack ==
  ASSUME Inv, NEW c \in Calls, NEW a \in Replied, NEW w \in BOOLEAN, Answer(c, a, w),
         Rollback(c)
  PROVE  Inv'
  <1> DEFINE k == [call[c] EXCEPT !.answer = a, !.wrote = w]
  <1>1. Moves(c, "answered", k) /\ k \in Records /\ Sound("answered", k)
    BY AnswerMoves
  <1> HIDE DEF k
  <1> QED
    BY <1>1, MoveAndRollback

(* ... and so does one given after the commit of the recorded outcome.     *)
LEMMA AnswerCommitted ==
  ASSUME Inv, NEW c \in Calls, NEW a \in Replied, NEW w \in BOOLEAN, Answer(c, a, w),
         CommitTx(c)
  PROVE  Inv'
  <1> DEFINE k == [call[c] EXCEPT !.answer = a, !.wrote = w]
             r == [unit |-> Unit(c), answer |-> call[c].answer]
  <1>1. Moves(c, "answered", k) /\ k \in Records /\ Sound("answered", k)
    BY AnswerMoves
  <1>2. at[c] = "record" /\ Release(c) /\ row' = [row EXCEPT ![Key(c)] = r]
    BY DEF CommitTx
  <1>3. Key(c) \in Keys /\ Unit(c) \in WorkUnits /\ call[c].answer \in Outcomes
    BY <1>2, CallIs DEF Sound
  <1>4. r \in Rows /\ r # NoRow
    BY <1>3, NobodyIs
  <1>5. CallsOK'
    BY <1>1, CallsStep DEF Inv, Labels
  <1>6. LocksOK'
    <2>1. "answered" \notin Owning \cup {"replay"} /\ at[c] \in Owning
      BY <1>2 DEF Owning, Open
    <2> HIDE DEF k, r
    <2> QED
      BY <1>1, <1>2, <1>4, <2>1, LocksReleased
  <1>7. StoreOK'
    <2>1. row' \in [Keys -> Rows]
      BY <1>2, <1>3, <1>4 DEF Inv, StoreOK
    <2>2. pool' \in [version : Nat, units : SUBSET WorkUnits]
      BY <1>3 DEF CommitTx, Inv, StoreOK
    <2>3. created' \in [WorkUnits -> Nat]
      BY <1>3 DEF CommitTx, Inv, StoreOK
    <2> QED
      BY <1>2, <2>1, <2>2, <2>3, ReleaseIs DEF StoreOK
  <1> QED
    BY <1>5, <1>6, <1>7 DEF Inv

(* A move that neither takes nor gives back a key.                         *)
LEMMA MoveInside ==
  ASSUME Inv, NEW c \in Calls, NEW l \in Labels, NEW k \in Records, Sound(l, k),
         Moves(c, l, k), UNCHANGED <<row, holder, pool, created>>,
         l \in Owning <=> at[c] \in Owning,
         l \in Owning => k.cmd = call[c].cmd,
         saver' \in {saver, c}, saver' = c => l = "record",
         l = "replay" => row[k.cmd.key] # NoRow
  PROVE  Inv'
  <1>1. CallsOK'
    BY CallsStep DEF Inv
  <1>2. LocksOK'
    BY LocksKept
  <1>3. StoreOK'
    BY DEF Inv, StoreOK
  <1> QED
    BY <1>1, <1>2, <1>3 DEF Inv

(* Types and locks hold at first ... *)
LEMMA InvInit == Init => Inv
  <1> SUFFICES ASSUME Init PROVE Inv
    OBVIOUS
  <1>1. StoreOK
    BY NobodyIs DEF Init, StoreOK
  <1>2. CallsOK
    BY NobodyIs DEF Init, CallsOK, Sound, Labels
  <1>3. LocksOK
    BY NobodyIs DEF Init, LocksOK, Owning, Open
  <1> QED
    BY <1>1, <1>2, <1>3 DEF Inv

(* A request without a key is answered like the others.                    *)
LEMMA DirectAnswers ==
  ASSUME NEW c \in Calls, NEW r \in Routes, NEW f, ServeDirect(c, r, f)
  PROVE  \E a \in Replied, w \in BOOLEAN : Answer(c, a, w)
  <1> DEFINE writes == r \in Writers \cup Publishers
  <1>1. writes \in BOOLEAN /\ \A e : (e \in Internal /\ writes) \in BOOLEAN
    OBVIOUS
  <1>2. \/ Answer(c, Success(r), writes)
        \/ \E e : \E w \in {FALSE, (e \in Internal /\ writes)} : Answer(c, Refusal(e), w)
    BY Zenon DEF ServeDirect
  <1> HIDE DEF writes
  <1>3. CASE Answer(c, Success(r), writes)
    BY <1>1, <1>3, SuccessIs
  <1>4. ASSUME NEW e, NEW w \in {FALSE, (e \in Internal /\ writes)}, Answer(c, Refusal(e), w)
        PROVE  \E a \in Replied, v \in BOOLEAN : Answer(c, a, v)
    <2>1. w \in BOOLEAN
      BY <1>1, <1>4
    <2> QED
      BY <2>1, <1>4, RefusalIs
  <1> QED
    BY <1>2, <1>3, <1>4

(* ... and after every step: the client's, ... *)
LEMMA InvClient ==
  ASSUME Inv, NEW c \in Calls,
         \/ \E m \in Commands : Send(c, m)
         \/ SendWithoutKey(c)
         \/ Reply(c)
         \/ Abandon(c)
         \/ \E r \in Routes : \E f : ServeDirect(c, r, f)
  PROVE  Inv'
  <1>1. call \in [Calls -> Records] /\ at[c] \in Labels /\ call[c] \in Records
    BY DEF Inv, CallsOK
  <1>2. saver = c => at[c] = "record"
    BY DEF Inv, LocksOK
  <1>3. ASSUME NEW m \in Commands, Send(c, m)
        PROVE  Inv'
    <2> DEFINE k == [call[c] EXCEPT !.cmd = m]
    <2>1. k \in Records /\ k.cmd = m
      BY <1>1 DEF Records
    <2>2. Moves(c, "insert", k)
      BY <1>1, <1>3 DEF Send, Goto, Moves, Records
    <2>3. "insert" \in Labels /\ Sound("insert", k)
      BY <2>1 DEF Labels, Sound
    <2>4. "insert" \notin Owning /\ at[c] \notin Owning /\ saver # c
      BY <1>2, <1>3 DEF Send, Owning, Open
    <2> HIDE DEF k
    <2> QED
      BY <1>3, <2>1, <2>2, <2>3, <2>4, MoveInside DEF Send, store
  <1>4. CASE SendWithoutKey(c)
    <2>1. at[c] \notin Owning
      BY <1>4 DEF SendWithoutKey, Owning, Open
    <2> QED
      BY <1>4, <2>1, AnswerOutside, OtherAnswers DEF SendWithoutKey
  <1>5. CASE Reply(c)
    <2>1. Moves(c, "idle", Blank)
      BY <1>5 DEF Reply, Goto, Moves
    <2>2. "idle" \in Labels /\ Sound("idle", Blank)
      BY DEF Labels, Sound
    <2>3. "idle" \notin Owning /\ at[c] \notin Owning /\ saver # c
      BY <1>2, <1>5 DEF Reply, Owning, Open
    <2> QED
      BY <1>5, <2>1, <2>2, <2>3, NobodyIs, MoveInside DEF Reply, store
  <1>6. CASE Abandon(c)
    <2>1. Moves(c, "idle", Blank)
      BY <1>6 DEF Abandon, Goto, Moves
    <2>2. Sound("idle", Blank)
      BY DEF Sound
    <2> QED
      BY <1>6, <2>1, <2>2, NobodyIs, MoveAndRollback DEF Abandon
  <1>7. ASSUME NEW r \in Routes, NEW f, ServeDirect(c, r, f)
        PROVE  Inv'
    <2>1. at[c] \notin Owning /\ UNCHANGED store
      BY <1>7 DEF ServeDirect, Owning, Open
    <2>2. PICK a \in Replied, w \in BOOLEAN : Answer(c, a, w)
      BY <1>7, DirectAnswers
    <2> QED
      BY <2>1, <2>2, AnswerOutside
  <1> QED
    BY <1>3, <1>4, <1>5, <1>6, <1>7

(* ... the middleware's at the key's row, ... *)
LEMMA InvInsert ==
  ASSUME Inv, NEW c \in Calls, Insert(c)
  PROVE  Inv'
  <1> DEFINE k == call[c]
  <1>1. /\ call \in [Calls -> Records] /\ at \in [Calls -> Labels] /\ at[c] = "insert"
        /\ Sound("insert", k) /\ k \in Records /\ k.cmd \in Commands
        /\ Key(c) \in Keys /\ Key(c) = k.cmd.key /\ call' = call
    BY CallIs DEF Inv, CallsOK, Insert, Sound, Key
  <1>2. "insert" \notin Owning /\ saver # c
    BY <1>1 DEF Owning, Open, Inv, LocksOK
  <1>3. CASE row[Key(c)] # NoRow
    <2>1. Moves(c, "replay", k) /\ "replay" \in Labels /\ Sound("replay", k)
      BY <1>1, <1>3 DEF Insert, Goto, Moves, Labels, Sound
    <2>2. "replay" \notin Owning
      BY DEF Owning, Open
    <2> HIDE DEF k
    <2> QED
      BY <1>1, <1>2, <1>3, <2>1, <2>2, MoveInside DEF Insert
  <1>4. CASE row[Key(c)] = NoRow
    <2>1. Moves(c, "handle", k) /\ "handle" \in Labels /\ Sound("handle", k)
      BY <1>1, <1>4 DEF Insert, Goto, Moves, Labels, Sound
    <2>2. /\ holder[Key(c)] = NoCall /\ holder' = [holder EXCEPT ![Key(c)] = c]
          /\ row' = row /\ saver' = saver /\ pool' = pool /\ created' = created
      BY <1>4 DEF Insert
    <2>3. CallsOK'
      BY <1>1, <2>1, CallsStep DEF Inv
    <2>4. StoreOK'
      BY <1>1, <2>2 DEF Inv, StoreOK
    <2>5. LocksOK'
      <3>1. /\ LocksOK /\ holder \in [Keys -> Calls \cup {NoCall}]
            /\ \A d \in Calls : Key(d)' = Key(d)
            /\ \A d \in Calls : at'[d] = IF d = c THEN "handle" ELSE at[d]
            /\ \A q \in Keys : holder'[q] = IF q = Key(c) THEN c ELSE holder[q]
        BY <1>1, <2>1, <2>2 DEF Inv, StoreOK, Moves, Key
      <3>2. "handle" \in Owning
        BY DEF Owning
      <3>3. ASSUME NEW q \in Keys, NEW d \in Calls
            PROVE  holder'[q] = d <=> at'[d] \in Owning /\ Key(d)' = q
        <4>1. CASE q = Key(c)
          BY <1>1, <2>2, <3>1, <3>2, <4>1, NobodyIs DEF LocksOK
        <4>2. CASE q # Key(c)
          BY <1>1, <1>2, <3>1, <4>2 DEF LocksOK
        <4> QED
          BY <4>1, <4>2
      <3>4. \A q \in Keys : holder'[q] # NoCall => row'[q] = NoRow
        BY <1>4, <2>2, <3>1 DEF LocksOK
      <3>5. \A d \in Calls : saver' = d => at'[d] = "record"
        BY <1>2, <2>2, <3>1 DEF LocksOK
      <3>6. \A d \in Calls : at'[d] = "replay" => row'[Key(d)'] # NoRow
        BY <2>2, <3>1 DEF LocksOK
      <3> QED
        BY <3>3, <3>4, <3>5, <3>6 DEF LocksOK
    <2> QED
      BY <2>3, <2>4, <2>5 DEF Inv
  <1> QED
    BY <1>3, <1>4

(* ... the replay, ...                                                     *)
LEMMA InvReplay ==
  ASSUME Inv, NEW c \in Calls, Replay(c)
  PROVE  Inv'
  <1>1. at[c] \notin Owning /\ UNCHANGED store /\ Key(c) \in Keys
    BY CallIs DEF Replay, Owning, Open
  <1>2. row[Key(c)] \in Rows
    BY <1>1 DEF Inv, StoreOK
  <1>3. row[Key(c)] # NoRow => row[Key(c)].answer \in Replied
    BY <1>2, OutcomeIs DEF Rows
  <1> DEFINE r == row[Key(c)]
             b == IF r.answer = NoAnswer THEN ServerError ELSE r.answer
  <1>4. \/ Answer(c, ServerError, FALSE)
        \/ Answer(c, KeyReused, FALSE)
        \/ r # NoRow /\ Answer(c, b, FALSE)
    BY DEF Replay
  <1>5. r # NoRow => b \in Replied
    BY <1>3, OtherAnswers
  <1> HIDE DEF b, r
  <1>6. PICK a \in Replied : Answer(c, a, FALSE)
    <2>1. ServerError \in Replied /\ KeyReused \in Replied
      BY OtherAnswers
    <2> QED
      BY <1>4, <1>5, <2>1, Zenon
  <1> QED
    BY <1>1, <1>6, AnswerOutside

(* ... the handler's, ... *)
LEMMA InvHandler ==
  ASSUME Inv, NEW c \in Calls, Handle(c) \/ ReadPool(c) \/ Save(c)
  PROVE  Inv'
  <1>1. /\ call \in [Calls -> Records] /\ call[c] \in Records /\ at[c] \in Labels
        /\ at[c] \in Owning /\ call[c].cmd \in Commands
        /\ Unit(c) \in WorkUnits /\ pool.version \in Nat
    BY CallIs DEF Inv, CallsOK, StoreOK, Handle, ReadPool, Save, Sound, Owning, Open
  <1>2. UNCHANGED <<row, holder, pool, created>>
    BY DEF Handle, ReadPool, Save, store
  <1>3. saver = c => at[c] = "record"
    BY DEF Inv, LocksOK
  <1>4. ASSUME NEW a \in Outcomes, Recorded(c, a), saver' \in {saver, c}
        PROVE  Inv'
    <2> DEFINE k == [call[c] EXCEPT !.answer = a]
    <2>1. k \in Records /\ k.cmd = call[c].cmd /\ k.answer = a
      BY <1>1, OutcomeIs DEF Records
    <2>2. Moves(c, "record", k) /\ "record" \in Labels /\ Sound("record", k)
      <3>1. Moves(c, "record", k)
        BY <1>1, <1>4 DEF Recorded, Goto, Moves, Records
      <3> HIDE DEF k
      <3> QED
        BY <1>1, <2>1, <3>1 DEF Labels, Open, Sound
    <2>3. "record" \in Owning
      BY DEF Owning, Open
    <2> HIDE DEF k
    <2> QED
      BY <1>1, <1>2, <1>4, <2>1, <2>2, <2>3, MoveInside
  <1>5. ASSUME NEW l \in {"readPool", "save"}, Goto(c, l), NEW k \in Records,
               k.cmd = call[c].cmd, call' = [call EXCEPT ![c] = k], saver' = saver,
               at[c] # "record"
        PROVE  Inv'
    <2>1. Moves(c, l, k) /\ l \in Labels /\ Sound(l, k)
      BY <1>1, <1>5 DEF Goto, Moves, Labels, Open, Sound
    <2>2. l \in Owning /\ saver # c /\ l # "replay"
      BY <1>3, <1>5 DEF Owning, Open
    <2> QED
      BY <1>1, <1>2, <1>5, <2>1, <2>2, MoveInside
  <1>6. CASE Handle(c)
    <2>1. CASE Stops("postWorkUnit", call[c].cmd.faults) = {}
      <3>1. \/ Goto(c, "readPool") /\ UNCHANGED call
            \/ \E e : e \in call[c].cmd.faults /\ Recorded(c, Refusal(e))
        BY <1>6 DEF Handle
      <3>2. CASE Goto(c, "readPool") /\ UNCHANGED call
        <4>1. call' = [call EXCEPT ![c] = call[c]]
          BY <1>1, <3>2
        <4> QED
          BY <1>1, <1>5, <1>6, <3>2, <4>1 DEF Handle, store
      <3>3. CASE \E e : e \in call[c].cmd.faults /\ Recorded(c, Refusal(e))
        BY <1>1, <1>4, <1>6, <3>3, CommandIs DEF Handle, store, Outcomes, Refused
      <3> QED
        BY <3>1, <3>2, <3>3
    <2>2. CASE Stops("postWorkUnit", call[c].cmd.faults) # {}
      <3>1. PICK e : e \in call[c].cmd.faults /\ Recorded(c, Refusal(e))
        BY <1>6, <2>2 DEF Handle
      <3>2. Refusal(e) \in Outcomes
        BY <1>1, <3>1, CommandIs DEF Outcomes, Refused
      <3> QED
        BY <1>4, <1>6, <3>1, <3>2 DEF Handle, store
    <2> QED
      BY <2>1, <2>2
  <1>7. CASE ReadPool(c)
    <2>1. CASE Unit(c) \in pool.units
      <3>1. Refusal("ErrDuplicateEntry") \in Outcomes
        BY DEF Outcomes, Refused
      <3> QED
        BY <1>4, <1>7, <2>1, <3>1 DEF ReadPool, store
    <2>2. CASE Unit(c) \notin pool.units
      <3> DEFINE k == [call[c] EXCEPT !.seen = pool.version]
      <3>1. k \in Records /\ k.cmd = call[c].cmd
        BY <1>1 DEF Records
      <3>2. Goto(c, "save") /\ call' = [call EXCEPT ![c] = k] /\ at[c] # "record" /\ saver' = saver
        BY <1>1, <1>7, <2>2 DEF ReadPool, Records, store
      <3> HIDE DEF k
      <3> QED
        BY <1>5, <3>1, <3>2
    <2> QED
      BY <2>1, <2>2
  <1>8. CASE Save(c)
    <2>1. at[c] = "save" /\ saver' \in {saver, c}
      BY <1>8 DEF Save
    <2>2. CASE Recorded(c, Success("postWorkUnit"))
      BY <1>4, <2>1, <2>2 DEF Outcomes
    <2>3. CASE Recorded(c, Refusal("ErrConcurrentModification"))
      BY <1>4, <2>1, <2>3 DEF Outcomes, Refused
    <2>4. CASE /\ call[c].tries + 1 < MaxAttempts /\ Goto(c, "readPool") /\ saver' = saver
               /\ call' = [call EXCEPT ![c].tries = @ + 1]
      <3> DEFINE k == [call[c] EXCEPT !.tries = @ + 1]
      <3>1. k \in Records /\ k.cmd = call[c].cmd
        BY <1>1, <2>4, KeyAssumption DEF Records
      <3>2. call' = [call EXCEPT ![c] = k]
        BY <1>1, <2>4 DEF Records
      <3> HIDE DEF k
      <3> QED
        BY <1>5, <2>1, <2>4, <3>1, <3>2
    <2> QED
      BY <1>8, <2>2, <2>3, <2>4 DEF Save
  <1> QED
    BY <1>6, <1>7, <1>8

(* ... and the end of a transaction, in all its forms. *)
LEMMA InvEnd ==
  ASSUME Inv, NEW c \in Calls, Record(c) \/ Fail(c) \/ LoseCommit(c)
  PROVE  Inv'
  <1>1. CASE Record(c)
    <2>1. call[c].answer \in Replied /\ (saver = c) \in BOOLEAN
      BY CallIs DEF Records
    <2> QED
      BY <1>1, <2>1, AnswerCommitted DEF Record
  <1>2. CASE Fail(c)
    BY <1>2, AnswerRolledBack, OtherAnswers DEF Fail
  <1>3. CASE LoseCommit(c)
    BY <1>3, AnswerCommitted, OtherAnswers DEF LoseCommit
  <1> QED
    BY <1>1, <1>2, <1>3

(* Requests that are not modelled only move the pool on.                   *)
LEMMA InvOthers ==
  ASSUME Inv, OtherSave \/ UNCHANGED vars
  PROVE  Inv'
  <1>1. UNCHANGED <<row, holder, saver, created, at, call>>
    BY DEF OtherSave, vars, store
  <1>2. pool' \in [version : Nat, units : SUBSET WorkUnits]
    BY DEF Inv, StoreOK, OtherSave, vars, store
  <1>3. StoreOK'
    BY <1>1, <1>2 DEF Inv, StoreOK
  <1>4. CallsOK'
    BY <1>1 DEF Inv, CallsOK
  <1>5. LocksOK'
    BY <1>1 DEF Inv, LocksOK, Key
  <1> QED
    BY <1>3, <1>4, <1>5 DEF Inv

(* The steps of a call, named for the lemmas above. *)
LEMMA Steps ==
  ASSUME [Next]_vars
  PROVE  \/ OtherSave \/ UNCHANGED vars
         \/ \E c \in Calls :
               \/ \E m \in Commands : Send(c, m)
               \/ SendWithoutKey(c)
               \/ Reply(c)
               \/ Abandon(c)
               \/ \E r \in Routes : \E f : ServeDirect(c, r, f)
               \/ Insert(c)
               \/ Replay(c)
               \/ Handle(c) \/ ReadPool(c) \/ Save(c)
               \/ Record(c) \/ Fail(c) \/ LoseCommit(c)
  BY Zenon DEF Next, Step

(* All steps together.                                                     *)
LEMMA InvStep == Inv /\ [Next]_vars => Inv'
  <1> SUFFICES ASSUME Inv, [Next]_vars PROVE Inv'
    OBVIOUS
  <1> QED
    BY Steps, InvClient, InvInsert, InvReplay, InvHandler, InvEnd, InvOthers, Zenon

(* Types and locks hold in every behaviour.                                *)
LEMMA InvHolds == Spec => []Inv
  BY InvInit, InvStep, PTL DEF Spec

(* Only the owner of a key's lock is past its insert, only a call that has *)
(* saved the pool and not yet committed holds it, and every row has the    *)
(* answer of a request that ran: RequireIdempotencyKey's transaction.      *)
THEOREM TypeCorrect == Spec => []TypeOK
  <1>1. Inv => TypeOK
    <2> SUFFICES ASSUME Inv PROVE TypeOK
      OBVIOUS
    <2>1. row \in [Keys -> {NoRow} \cup [unit : WorkUnits, answer : Answers \cup {NoAnswer}]]
      <3>1. Rows \subseteq {NoRow} \cup [unit : WorkUnits, answer : Answers \cup {NoAnswer}]
        BY OutcomeIs DEF Rows
      <3> QED
        BY <3>1 DEF Inv, StoreOK
    <2>2. ASSUME NEW c \in Calls
          PROVE  /\ at[c] \in Open \cup {"handle"} <=> \E k \in Keys : holder[k] = c
                 /\ saver = c => at[c] = "record"
                 /\ call[c].tries < MaxAttempts
      <3>1. call[c].tries < MaxAttempts
        BY CallIs, KeyAssumption DEF Records
      <3>2. at[c] \in Owning => Key(c) \in Keys
        BY CallIs DEF Owning, Open
      <3> QED
        BY <3>1, <3>2 DEF Inv, LocksOK, Owning
    <2> QED
      BY <2>1, <2>2 DEF TypeOK, Inv, StoreOK, CallsOK
  <1> QED
    BY <1>1, InvHolds, PTL

-----------------------------------------------------------------------------
(* One answer per command.  What a row says about a command is final: a    *)
(* committed row is never written again.                                   *)

Verdict(t, m) == IF t[m.key].unit # m.unit THEN KeyReused ELSE t[m.key].answer

Final(t, m, a) == t[m.key] # NoRow /\ a = Verdict(t, m)

FinalOK ==
    /\ got \in [Commands -> SUBSET Replied]
    /\ \A c \in Calls :
          at[c] = "answered" /\ call[c].cmd # NoCommand /\ Settles(call[c].answer)
             => Final(row, call[c].cmd, call[c].answer)
    /\ \A m \in Commands : \A a \in got[m] : Final(row, m, a)

(* The owner of a key is the only one to write its row, and only once.     *)
LEMMA OwnerWrites ==
  ASSUME Inv, NEW c \in Calls, CommitTx(c)
  PROVE  /\ Key(c) \in Keys /\ Unit(c) \in WorkUnits /\ call[c].answer \in Outcomes
         /\ call[c].cmd \in Commands
         /\ row[Key(c)] = NoRow
         /\ \A q \in Keys :
               row'[q] = IF q = Key(c) THEN [unit |-> Unit(c), answer |-> call[c].answer]
                         ELSE row[q]
         /\ row'[Key(c)] # NoRow
  <1>1. at[c] = "record" /\ at[c] \in Owning
    BY DEF CommitTx, Owning, Open
  <1>2. /\ Key(c) \in Keys /\ Unit(c) \in WorkUnits /\ call[c].answer \in Outcomes
        /\ call[c].cmd \in Commands
    BY <1>1, CallIs DEF Sound
  <1>3. row[Key(c)] = NoRow
    BY <1>1, <1>2, NobodyIs DEF Inv, LocksOK
  <1>4. \A q \in Keys : row'[q] = IF q = Key(c) THEN [unit |-> Unit(c), answer |-> call[c].answer]
                                   ELSE row[q]
    BY DEF CommitTx, Inv, StoreOK
  <1> QED
    BY <1>2, <1>3, <1>4, NobodyIs

(* A row, once there, stays as it is.                                      *)
LEMMA RowsStay ==
  ASSUME Inv, [Next]_vars
  PROVE  \A q \in Keys : row[q] # NoRow => row'[q] = row[q]
  <1>1. \/ row' = row
        \/ \E c \in Calls : CommitTx(c)
    BY Steps DEF OtherSave, Send, SendWithoutKey, Reply, Abandon, ServeDirect, Insert, Replay,
                 Handle, ReadPool, Save, Record, Fail, LoseCommit, Rollback, vars, store
  <1> QED
    BY <1>1, OwnerWrites

(* So a final answer stays final.                                          *)
LEMMA FinalStays ==
  ASSUME Inv, [Next]_vars, NEW m \in Commands, NEW a, Final(row, m, a)
  PROVE  Final(row', m, a)
  <1>1. row[m.key] # NoRow /\ row'[m.key] = row[m.key]
    BY RowsStay, CommandIs DEF Final
  <1> QED
    BY <1>1 DEF Final, Verdict

(* A step settles nothing unless it answers a call or delivers its answer. *)
LEMMA FinalKept ==
  ASSUME Inv, FinalOK, [Next]_vars, got' = got, NEW c \in Calls,
         \A d \in Calls : d # c => at'[d] = at[d] /\ call'[d] = call[d],
         at'[c] = "answered" /\ call'[c].cmd # NoCommand /\ Settles(call'[c].answer)
            => call'[c].cmd \in Commands /\ Final(row', call'[c].cmd, call'[c].answer)
  PROVE  FinalOK'
  <1>1. ASSUME NEW d \in Calls, at'[d] = "answered", call'[d].cmd # NoCommand,
               Settles(call'[d].answer)
        PROVE  Final(row', call'[d].cmd, call'[d].answer)
    <2>1. CASE d = c
      BY <1>1, <2>1
    <2>2. CASE d # c
      <3>1. Final(row, call[d].cmd, call[d].answer) /\ call'[d] = call[d]
        BY <1>1, <2>2 DEF FinalOK
      <3>2. call[d].cmd \in Commands
        BY <1>1, <3>1, CallIs DEF Records
      <3> QED
        BY <3>1, <3>2, FinalStays
    <2> QED
      BY <2>1, <2>2
  <1>2. \A m \in Commands : \A a \in got[m] : Final(row', m, a)
    BY FinalStays DEF FinalOK
  <1> QED
    BY <1>1, <1>2 DEF FinalOK

(* At first nothing is settled ...                                         *)
LEMMA FinalInit == Init => FinalOK
  BY DEF Init, FinalOK

(* ... and every step settles commands by what the rows say ...            *)
LEMMA FinalStep == Inv /\ FinalOK /\ [Next]_vars => FinalOK'
  <1> SUFFICES ASSUME Inv, FinalOK, [Next]_vars PROVE FinalOK'
    OBVIOUS
  <1>1. /\ at \in [Calls -> Labels] /\ call \in [Calls -> Records]
        /\ \A c \in Calls : at[c] = "idle" => call[c] = Blank
    BY DEF Inv, CallsOK, Sound
  <1>2. ASSUME OtherSave \/ UNCHANGED vars
        PROVE  FinalOK'
    BY <1>2 DEF FinalOK, Final, Verdict, OtherSave, vars, store
  <1>3. ASSUME NEW c \in Calls, NEW l \in Labels, l # "answered", Goto(c, l), got' = got,
               \A d \in Calls : d # c => call'[d] = call[d]
        PROVE  FinalOK'
    BY <1>1, <1>3, FinalKept DEF Goto
  <1>4. ASSUME NEW c \in Calls, NEW a \in Replied, NEW w \in BOOLEAN, Answer(c, a, w), got' = got,
               call[c].cmd # NoCommand /\ Settles(a) => Final(row', call[c].cmd, a)
        PROVE  FinalOK'
    <2>1. /\ \A d \in Calls : d # c => at'[d] = at[d] /\ call'[d] = call[d]
          /\ call'[c].cmd = call[c].cmd /\ call'[c].answer = a
      BY <1>1, <1>4 DEF Answer, Goto, Records
    <2>2. call[c].cmd \in Commands \cup {NoCommand}
      BY <1>1 DEF Records
    <2> QED
      BY <1>4, <2>1, <2>2, FinalKept
  <1>5. ~Settles(ServerError)
    BY OtherAnswers DEF Settles
  <1>6. FALSE \in BOOLEAN /\ TRUE \in BOOLEAN
    OBVIOUS
  <1>7. ASSUME NEW c \in Calls, NEW m \in Commands, Send(c, m)
        PROVE  FinalOK'
    BY <1>1, <1>3, <1>7 DEF Send, Labels
  <1>8. ASSUME NEW c \in Calls, SendWithoutKey(c)
        PROVE  FinalOK'
    <2>1. call[c].cmd = NoCommand
      BY <1>1, <1>8 DEF SendWithoutKey, Blank
    <2>2. Answer(c, NoHeader, FALSE) /\ got' = got
      BY <1>8 DEF SendWithoutKey
    <2> QED
      BY <1>4, <1>6, <2>1, <2>2, OtherAnswers
  <1>9. ASSUME NEW c \in Calls, NEW r \in Routes, NEW f, ServeDirect(c, r, f)
        PROVE  FinalOK'
    <2>1. call[c].cmd = NoCommand /\ got' = got
      BY <1>1, <1>9 DEF ServeDirect, Blank
    <2>2. PICK a \in Replied, w \in BOOLEAN : Answer(c, a, w)
      BY <1>9, DirectAnswers
    <2> QED
      BY <1>4, <2>1, <2>2
  <1>10. ASSUME NEW c \in Calls, Abandon(c)
         PROVE  FinalOK'
    BY <1>1, <1>3, <1>10 DEF Abandon, Labels
  <1>11. ASSUME NEW c \in Calls, Insert(c)
         PROVE  FinalOK'
    BY <1>1, <1>3, <1>11 DEF Insert, Labels
  <1>12. ASSUME NEW c \in Calls, Handle(c) \/ ReadPool(c) \/ Save(c)
         PROVE  FinalOK'
    <2>1. PICK l \in {"readPool", "save", "record"} : Goto(c, l)
      BY <1>12 DEF Handle, ReadPool, Save, Recorded
    <2>2. \A d \in Calls : d # c => call'[d] = call[d]
      BY <1>1, <1>12 DEF Handle, ReadPool, Save, Recorded
    <2>3. got' = got
      BY <1>12 DEF Handle, ReadPool, Save
    <2> QED
      BY <1>3, <2>1, <2>2, <2>3 DEF Labels, Open
  <1>13. ASSUME NEW c \in Calls, Fail(c) \/ LoseCommit(c)
         PROVE  FinalOK'
    <2>1. PICK w \in BOOLEAN : Answer(c, ServerError, w)
      BY <1>6, <1>13 DEF Fail, LoseCommit
    <2>2. got' = got /\ ServerError \in Replied
      BY <1>13, OtherAnswers DEF Fail, LoseCommit
    <2> QED
      BY <1>4, <1>5, <2>1, <2>2
  <1>14. ASSUME NEW c \in Calls, Replay(c)
         PROVE  FinalOK'
    <2> DEFINE r == row[Key(c)]
    <2>1. at[c] = "replay" /\ row' = row /\ got' = got
      BY <1>14 DEF Replay, store
    <2>2. r # NoRow /\ r \in Rows /\ Key(c) = call[c].cmd.key /\ Unit(c) = call[c].cmd.unit
      BY <2>1, CallIs DEF Inv, StoreOK, LocksOK, Key, Unit
    <2>3. r.answer \in Outcomes
      BY <2>2 DEF Rows
    <2>4. r.answer # NoAnswer /\ r.answer \in Replied
      BY <2>3, OutcomeIs
    <2>5. CASE r.unit # Unit(c)
      <3>1. Answer(c, KeyReused, FALSE)
        BY <1>14, <2>2, <2>5 DEF Replay
      <3>2. Final(row', call[c].cmd, KeyReused)
        BY <2>1, <2>2, <2>5 DEF Final, Verdict
      <3> QED
        BY <1>4, <1>6, <2>1, <3>1, <3>2, OtherAnswers
    <2>6. CASE r.unit = Unit(c)
      <3>1. Answer(c, r.answer, FALSE)
        BY <1>14, <2>2, <2>4, <2>6 DEF Replay
      <3>2. Final(row', call[c].cmd, r.answer)
        BY <2>1, <2>2, <2>6 DEF Final, Verdict
      <3> QED
        BY <1>4, <1>6, <2>1, <2>4, <3>1, <3>2
    <2> QED
      BY <2>5, <2>6
  <1>15. ASSUME NEW c \in Calls, Record(c)
         PROVE  FinalOK'
    <2>1. CommitTx(c) /\ Answer(c, call[c].answer, saver = c) /\ got' = got
      BY <1>15 DEF Record
    <2>2. call[c].answer \in Replied /\ (saver = c) \in BOOLEAN
      BY CallIs DEF Records
    <2>3. Final(row', call[c].cmd, call[c].answer)
      <3> DEFINE r == [unit |-> Unit(c), answer |-> call[c].answer]
      <3>1. row'[Key(c)] = r /\ row'[Key(c)] # NoRow
        BY <2>1, OwnerWrites
      <3>2. r.unit = Unit(c) /\ r.answer = call[c].answer
        OBVIOUS
      <3> HIDE DEF r
      <3> QED
        BY <3>1, <3>2 DEF Final, Verdict, Key, Unit
    <2> QED
      BY <1>4, <2>1, <2>2, <2>3
  <1>16. ASSUME NEW c \in Calls, Reply(c)
         PROVE  FinalOK'
    <2> DEFINE m == call[c].cmd
               a == call[c].answer
    <2>1. /\ at[c] = "answered" /\ row' = row
          /\ at' = [at EXCEPT ![c] = "idle"]
          /\ \A d \in Calls : d # c => call'[d] = call[d]
      BY <1>1, <1>16 DEF Reply, Goto, store
    <2>2. m \in Commands \cup {NoCommand} /\ a \in Replied
      BY <1>1 DEF Records
    <2>3. /\ got' \in [Commands -> SUBSET Replied]
          /\ \A n \in Commands : \A b \in got'[n] : Final(row, n, b)
      <3>1. CASE m # NoCommand /\ Settles(a)
        <4>1. got' = [got EXCEPT ![m] = @ \cup {a}]
          BY <1>16, <3>1 DEF Reply
        <4>2. Final(row, m, a)
          BY <2>1, <3>1 DEF FinalOK
        <4> HIDE DEF m, a
        <4> QED
          BY <2>2, <3>1, <4>1, <4>2 DEF FinalOK
      <3>2. CASE ~(m # NoCommand /\ Settles(a))
        <4>1. got' = got
          BY <1>16, <3>2 DEF Reply
        <4> QED
          BY <4>1 DEF FinalOK
      <3> QED
        BY <3>1, <3>2
    <2>4. \A d \in Calls :
             at'[d] = "answered" /\ call'[d].cmd # NoCommand /\ Settles(call'[d].answer)
                => Final(row, call'[d].cmd, call'[d].answer)
      BY <1>1, <2>1 DEF FinalOK
    <2> QED
      BY <2>1, <2>3, <2>4 DEF FinalOK
  <1> QED
    BY Steps, <1>2, <1>7, <1>8, <1>9, <1>10, <1>11, <1>12, <1>13, <1>14, <1>15, <1>16, Zenon

(* ... in every behaviour.                                                 *)
LEMMA FinalHolds == Spec => []FinalOK
  BY FinalInit, FinalStep, InvHolds, PTL DEF Spec

(* Every answer but a server error is final for its command, whatever is   *)
(* resent, overtaken, abandoned or lost: replayCachedResponse gives what   *)
(* the request that ran recorded, and nothing writes a committed row.      *)
THEOREM OneAnswerHolds == Spec => []OneAnswer
  <1>1. FinalOK => OneAnswer
    <2> SUFFICES ASSUME FinalOK, NEW m \in Commands PROVE Cardinality(got[m]) <= 1
      BY DEF OneAnswer
    <2>1. \A a \in got[m] : a = Verdict(row, m)
      BY DEF FinalOK, Final
    <2>2. got[m] = {} \/ got[m] = {Verdict(row, m)}
      BY <2>1
    <2> QED
      BY <2>2, FS_EmptySet, FS_Singleton
  <1> QED
    BY <1>1, FinalHolds, PTL

-----------------------------------------------------------------------------
(* What is recorded is what was done.  A call holds the pool exactly while *)
(* it has a success to record; the version it read tells it that its unit  *)
(* is still missing.                                                       *)

Agrees(c) ==
    /\ saver = c => call[c].answer = Success("postWorkUnit") /\ Unit(c) \notin pool.units
    /\ at[c] = "record" /\ call[c].answer = Success("postWorkUnit") => saver = c
    /\ at[c] = "save" => /\ call[c].seen <= pool.version
                         /\ call[c].seen = pool.version => Unit(c) \notin pool.units

Made(k, w) == row[k] # NoRow /\ row[k].answer = Success("postWorkUnit") /\ row[k].unit = w

RowsAgree ==
    /\ \A w \in WorkUnits : created[w] = IF w \in pool.units THEN 1 ELSE 0
    /\ \A w \in WorkUnits : w \in pool.units <=> \E k \in Keys : Made(k, w)
    /\ \A w \in WorkUnits : \A k, q \in Keys : Made(k, w) /\ Made(q, w) => k = q

EffectOK == RowsAgree /\ \A c \in Calls : Agrees(c)

(* At first there is neither a unit nor a row.                             *)
LEMMA EffectInit == Init => EffectOK
  <1> SUFFICES ASSUME Init PROVE EffectOK
    OBVIOUS
  <1>1. RowsAgree
    BY DEF Init, RowsAgree, Made
  <1>2. \A c \in Calls : Agrees(c)
    BY NobodyIs DEF Init, Agrees
  <1> QED
    BY <1>1, <1>2 DEF EffectOK

(* Nothing is committed, and who holds the pool changes for c at most.     *)
LEMMA EffectKept ==
  ASSUME EffectOK, UNCHANGED <<row, pool, created>>, NEW c \in Calls,
         \A d \in Calls : d # c => at'[d] = at[d] /\ call'[d] = call[d],
         \A d \in Calls : d # c => (saver' = d <=> saver = d),
         Agrees(c)'
  PROVE  EffectOK'
  <1>1. RowsAgree'
    BY DEF EffectOK, RowsAgree, Made
  <1>2. \A d \in Calls : Agrees(d)'
    BY DEF EffectOK, Agrees, Unit
  <1> QED
    BY <1>1, <1>2 DEF EffectOK

(* The commit. *)
LEMMA EffectCommit ==
  ASSUME Inv, EffectOK, NEW c \in Calls, NEW a \in Replied, NEW w \in BOOLEAN, CommitTx(c),
         Answer(c, a, w)
  PROVE  EffectOK'
  <1> DEFINE u == Unit(c)
             r == [unit |-> u, answer |-> call[c].answer]
             ok == call[c].answer = Success("postWorkUnit")
  <1>1. /\ Key(c) \in Keys /\ u \in WorkUnits /\ at[c] = "record" /\ row[Key(c)] = NoRow
        /\ \A q \in Keys : row'[q] = IF q = Key(c) THEN r ELSE row[q]
        /\ r # NoRow /\ r.unit = u /\ r.answer = call[c].answer
    <2>1. at[c] = "record"
      BY DEF CommitTx
    <2>2. row'[Key(c)] # NoRow /\ row'[Key(c)] = r
      BY OwnerWrites
    <2> QED
      BY <2>1, <2>2, OwnerWrites
  <1>2. saver = c <=> ok
    BY <1>1 DEF EffectOK, Agrees
  <1>3. \A k \in Keys, v \in WorkUnits : Made(k, v)' <=> Made(k, v) \/ (k = Key(c) /\ ok /\ v = u)
    <2> HIDE DEF r, ok
    <2> QED
      BY <1>1 DEF Made, ok
  <1>4. RowsAgree'
    <2>1. CASE saver = c
      <3>1. u \notin pool.units /\ ok
        BY <1>2, <2>1 DEF EffectOK, Agrees
      <3>2. /\ \A v \in WorkUnits : v \in pool'.units <=> v \in pool.units \/ v = u
            /\ \A v \in WorkUnits : created'[v] = IF v = u THEN created[v] + 1 ELSE created[v]
        BY <2>1 DEF CommitTx, Inv, StoreOK
      <3>3. \A v \in WorkUnits : created'[v] = IF v \in pool'.units THEN 1 ELSE 0
        BY <3>1, <3>2 DEF EffectOK, RowsAgree
      <3> HIDE DEF ok, u
      <3>4. \A v \in WorkUnits : v \in pool'.units <=> \E k \in Keys : Made(k, v)'
        BY <1>1, <1>3, <3>1, <3>2 DEF EffectOK, RowsAgree
      <3>5. \A v \in WorkUnits : \A k, q \in Keys : Made(k, v)' /\ Made(q, v)' => k = q
        BY <1>1, <1>3, <3>1 DEF EffectOK, RowsAgree
      <3> QED
        BY <3>3, <3>4, <3>5 DEF RowsAgree
    <2>2. CASE saver # c
      <3>1. ~ok /\ pool' = pool /\ created' = created
        BY <1>2, <2>2 DEF CommitTx
      <3> HIDE DEF ok, u
      <3>2. \A k \in Keys, v \in WorkUnits : Made(k, v)' <=> Made(k, v)
        BY <1>3, <3>1
      <3> QED
        BY <3>1, <3>2 DEF EffectOK, RowsAgree
    <2> QED
      BY <2>1, <2>2
  <1>5. ASSUME NEW d \in Calls
        PROVE  Agrees(d)'
    <2>1. at'[c] = "answered" /\ (d # c => at'[d] = at[d] /\ call'[d] = call[d])
      BY DEF Answer, Goto, Inv, CallsOK
    <2>2. saver' # c /\ (d # c => (saver' = d <=> saver = d))
      BY NobodyIs DEF CommitTx, Release
    <2>3. CASE d = c
      BY <2>1, <2>2, <2>3 DEF Agrees
    <2>4. CASE d # c /\ saver = c
      <3>1. pool'.version = pool.version + 1 /\ pool.version \in Nat /\ call[d].seen \in Nat
        BY <2>4, CallIs DEF CommitTx, Inv, StoreOK, Records
      <3> QED
        BY <2>1, <2>2, <2>4, <3>1 DEF Agrees, EffectOK
    <2>5. CASE d # c /\ saver # c
      <3>1. pool' = pool
        BY <2>5 DEF CommitTx
      <3> QED
        BY <2>1, <2>2, <2>5, <3>1 DEF Agrees, EffectOK, Unit
    <2> QED
      BY <2>3, <2>4, <2>5
  <1> QED
    BY <1>4, <1>5 DEF EffectOK

(* Every step keeps rows and units in agreement ...                        *)
LEMMA EffectStep == Inv /\ EffectOK /\ [Next]_vars => EffectOK'
  <1> SUFFICES ASSUME Inv, EffectOK, [Next]_vars PROVE EffectOK'
    OBVIOUS
  <1>1. /\ at \in [Calls -> Labels] /\ call \in [Calls -> Records]
        /\ \A c \in Calls : saver = c => at[c] = "record"
    BY DEF Inv, CallsOK, LocksOK
  <1>2. CASE UNCHANGED vars
    BY <1>2 DEF EffectOK, RowsAgree, Made, Agrees, Unit, vars, store
  <1>3. CASE OtherSave
    <2>1. UNCHANGED <<row, saver, created, at, call>> /\ saver = NoCall
      BY <1>3 DEF OtherSave
    <2>2. pool'.version = pool.version + 1 /\ pool'.units = pool.units /\ pool.version \in Nat
      BY <1>3 DEF OtherSave, Inv, StoreOK
    <2>3. RowsAgree'
      BY <2>1, <2>2 DEF EffectOK, RowsAgree, Made
    <2>4. \A c \in Calls : call[c].seen \in Nat
      BY <1>1 DEF Records
    <2>5. \A c \in Calls : Agrees(c)'
      BY <2>1, <2>2, <2>4, NobodyIs DEF EffectOK, Agrees
    <2> QED
      BY <2>3, <2>5 DEF EffectOK
  <1>4. ASSUME NEW c \in Calls, NEW l \in Labels \ {"record", "save"}, Goto(c, l),
               UNCHANGED <<row, pool, created>>,
               \A d \in Calls : d # c => call'[d] = call[d],
               saver' = IF saver = c THEN NoCall ELSE saver
        PROVE  EffectOK'
    <2>1. Agrees(c)'
      BY <1>1, <1>4, NobodyIs DEF Agrees, Goto
    <2> QED
      BY <1>1, <1>4, <2>1, NobodyIs, EffectKept DEF Goto
  <1>5. ASSUME NEW c \in Calls, SendWithoutKey(c) \/ Reply(c) \/ Insert(c) \/ Replay(c)
                                   \/ (\E m \in Commands : Send(c, m))
                                   \/ (\E r \in Routes : \E f : ServeDirect(c, r, f))
        PROVE  EffectOK'
    <2>1. at[c] # "record" /\ UNCHANGED <<row, pool, created, saver>>
      BY <1>5 DEF SendWithoutKey, Reply, Insert, Replay, Send, ServeDirect, store
    <2>2. \E l \in {"idle", "insert", "handle", "replay", "answered"} : Goto(c, l)
      BY <1>5 DEF SendWithoutKey, Reply, Insert, Replay, Send, ServeDirect, Answer
    <2>3. \A d \in Calls : d # c => call'[d] = call[d]
      BY <1>1, <1>5 DEF SendWithoutKey, Reply, Insert, Replay, Send, ServeDirect, Answer
    <2> QED
      BY <1>1, <1>4, <2>1, <2>2, <2>3 DEF Labels
  <1>6. ASSUME NEW c \in Calls, Abandon(c) \/ Fail(c)
        PROVE  EffectOK'
    BY <1>1, <1>4, <1>6 DEF Abandon, Fail, Rollback, Release, Answer, Labels
  <1>7. ASSUME NEW c \in Calls, Record(c) \/ LoseCommit(c)
        PROVE  EffectOK'
    <2>1. PICK a \in Replied, w \in BOOLEAN : Answer(c, a, w)
      <3>1. call[c].answer \in Replied /\ (saver = c) \in BOOLEAN
        BY <1>1 DEF Records
      <3>2. ServerError \in Replied /\ TRUE \in BOOLEAN
        BY OtherAnswers
      <3>3. \/ Answer(c, call[c].answer, saver = c)
            \/ Answer(c, ServerError, TRUE)
        BY <1>7 DEF Record, LoseCommit
      <3> QED
        BY <3>1, <3>2, <3>3, Zenon
    <2> QED
      BY <1>7, <2>1, EffectCommit DEF Record, LoseCommit
  <1>8. ASSUME NEW c \in Calls, Handle(c) \/ ReadPool(c) \/ Save(c)
        PROVE  EffectOK'
    <2>1. /\ \A d \in Calls : d # c => at'[d] = at[d] /\ call'[d] = call[d]
          /\ UNCHANGED <<row, pool, created>>
      BY <1>1, <1>8 DEF Handle, ReadPool, Save, Recorded, Goto, store
    <2>2. at[c] # "record" /\ saver # c
      BY <1>1, <1>8 DEF Handle, ReadPool, Save
    <2>3. ASSUME NEW a \in Refused, Recorded(c, Refusal(a)), saver' = saver
          PROVE  EffectOK'
      <3>1. call'[c].answer # Success("postWorkUnit")
        BY <1>1, <2>3, RefusedIs4xx, OtherAnswers DEF Recorded, Records, Reply4xx
      <3>2. Agrees(c)'
        BY <1>1, <2>2, <2>3, <3>1 DEF Agrees, Recorded, Goto
      <3> QED
        BY <2>1, <2>3, <3>2, EffectKept
    <2>4. ASSUME Goto(c, "readPool"), saver' = saver
          PROVE  EffectOK'
      <3>1. Agrees(c)'
        BY <1>1, <2>2, <2>4 DEF Agrees, Goto
      <3> QED
        BY <2>1, <2>4, <3>1, EffectKept
    <2>5. CASE Handle(c)
      <3>1. saver' = saver /\ call[c].cmd \in Commands
        BY <2>5, CallIs DEF Handle, store, Sound
      <3>2. \/ Goto(c, "readPool")
            \/ \E e : e \in call[c].cmd.faults /\ Recorded(c, Refusal(e))
        BY <2>5 DEF Handle
      <3> QED
        BY <2>3, <2>4, <3>1, <3>2, CommandIs DEF Refused
    <2>6. CASE ReadPool(c)
      <3>1. CASE Unit(c) \in pool.units
        BY <2>3, <2>6, <3>1 DEF ReadPool, Refused, store
      <3>2. CASE Unit(c) \notin pool.units
        <4>1. /\ at'[c] = "save" /\ saver' = saver
              /\ call'[c].seen = pool.version /\ call'[c].cmd = call[c].cmd
          BY <1>1, <2>6, <3>2 DEF ReadPool, Goto, Records, store
        <4>2. pool.version \in Nat
          BY DEF Inv, StoreOK
        <4>3. Agrees(c)'
          BY <2>1, <2>2, <3>2, <4>1, <4>2 DEF Agrees, Unit
        <4> QED
          BY <2>1, <4>1, <4>3, EffectKept
      <3> QED
        BY <3>1, <3>2
    <2>7. CASE Save(c)
      <3>1. at[c] = "save" /\ saver = NoCall
        BY <2>7 DEF Save
      <3>2. CASE /\ pool.version = call[c].seen /\ saver' = c
                 /\ Recorded(c, Success("postWorkUnit"))
        <4>1. call'[c].answer = Success("postWorkUnit") /\ call'[c].cmd = call[c].cmd
              /\ at'[c] = "record"
          BY <1>1, <3>2 DEF Recorded, Goto, Records
        <4>2. Unit(c) \notin pool.units
          BY <3>1, <3>2 DEF EffectOK, Agrees
        <4>3. Agrees(c)'
          BY <2>1, <3>2, <4>1, <4>2 DEF Agrees, Unit
        <4> QED
          BY <2>1, <3>1, <3>2, <4>3, NobodyIs, EffectKept
      <3>3. CASE Goto(c, "readPool") /\ saver' = saver
        BY <2>4, <3>3
      <3>4. CASE Recorded(c, Refusal("ErrConcurrentModification")) /\ saver' = saver
        BY <2>3, <3>4 DEF Refused
      <3> QED
        BY <2>7, <3>2, <3>3, <3>4 DEF Save
    <2> QED
      BY <1>8, <2>5, <2>6, <2>7
  <1> QED
    BY Steps, <1>2, <1>3, <1>5, <1>6, <1>7, <1>8, Zenon

(* ... in every behaviour.                                                *)
LEMMA EffectHolds == Spec => []EffectOK
  BY EffectInit, EffectStep, InvHolds, PTL DEF Spec

(* No key is committed without its outcome, an outcome is never a server   *)
(* error, and 201 is recorded for exactly the units that exist, one key    *)
(* and one event each: the handler's unit of work joins the middleware's   *)
(* transaction, and a failed statement undoes both.                        *)
THEOREM OutcomeMatchesEffectHolds == Spec => []OutcomeMatchesEffect
  <1>1. Inv /\ EffectOK => OutcomeMatchesEffect
    <2> SUFFICES ASSUME Inv, EffectOK PROVE OutcomeMatchesEffect
      OBVIOUS
    <2>1. \A k \in Keys : row[k] # NoRow => row[k].answer # NoAnswer /\ Settles(row[k].answer)
      <3>1. \A k \in Keys : row[k] # NoRow => row[k].answer \in Outcomes
        BY DEF Inv, StoreOK, Rows
      <3> QED
        BY <3>1, OutcomeIs
    <2>2. ASSUME NEW w \in WorkUnits
          PROVE  LET by == {k \in Keys : row[k] # NoRow /\ row[k].unit = w
                                            /\ row[k].answer = Success("postWorkUnit")}
                 IN  /\ created[w] = Cardinality(by)
                     /\ created[w] = IF w \in pool.units THEN 1 ELSE 0
      <3> DEFINE by == {k \in Keys : row[k] # NoRow /\ row[k].unit = w
                                        /\ row[k].answer = Success("postWorkUnit")}
      <3>1. created[w] = IF w \in pool.units THEN 1 ELSE 0
        BY DEF EffectOK, RowsAgree
      <3>2. by = {k \in Keys : Made(k, w)}
        BY DEF Made
      <3>3. CASE w \in pool.units
        <4>1. PICK k \in Keys : Made(k, w)
          BY <3>3 DEF EffectOK, RowsAgree
        <4>2. by = {k}
          BY <3>2, <4>1 DEF EffectOK, RowsAgree
        <4> QED
          BY <3>1, <3>3, <4>2, FS_Singleton
      <3>4. CASE w \notin pool.units
        <4>1. by = {}
          BY <3>2, <3>4 DEF EffectOK, RowsAgree
        <4> QED
          BY <3>1, <3>4, <4>1, FS_EmptySet
      <3> QED
        BY <3>3, <3>4
    <2> QED
      BY <2>1, <2>2 DEF OutcomeMatchesEffect
  <1> QED
    BY <1>1, InvHolds, EffectHolds, PTL

-----------------------------------------------------------------------------
(* What a call is about to tell its client. *)

Truthful(a, wrote) ==
    /\ a.status \in Reply4xx => ~wrote
    /\ a.status = 500 <=> a.problem = "internal-error"

ToldOK == \A c \in Calls : at[c] = "answered" => Truthful(call[c].answer, call[c].wrote)

(* Every step that answers tells the truth about its effect ...            *)
LEMMA ToldStep == Inv /\ EffectOK /\ ToldOK /\ [Next]_vars => ToldOK'
  <1> SUFFICES ASSUME Inv, EffectOK, ToldOK, [Next]_vars PROVE ToldOK'
    OBVIOUS
  <1>1. at \in [Calls -> Labels] /\ call \in [Calls -> Records]
    BY DEF Inv, CallsOK
  <1>2. CASE UNCHANGED <<at, call>>
    BY <1>2 DEF ToldOK
  <1>3. ASSUME NEW c \in Calls, NEW l \in Labels \ {"answered"}, Goto(c, l),
               \A d \in Calls : d # c => call'[d] = call[d]
        PROVE  ToldOK'
    BY <1>1, <1>3 DEF ToldOK, Goto
  <1>4. ASSUME NEW c \in Calls, NEW a, NEW w \in BOOLEAN, Answer(c, a, w),
               Truthful(a, w)
        PROVE  ToldOK'
    <2>1. \A d \in Calls : d # c => at'[d] = at[d] /\ call'[d] = call[d]
      BY <1>1, <1>4 DEF Answer, Goto
    <2>2. call'[c].answer = a /\ call'[c].wrote = w
      BY <1>1, <1>4 DEF Answer, Records
    <2> QED
      BY <1>4, <2>1, <2>2 DEF ToldOK
  <1>5. /\ Truthful(NoHeader, FALSE) /\ Truthful(KeyReused, FALSE)
        /\ \A w \in BOOLEAN : Truthful(ServerError, w)
    BY OtherAnswers DEF Truthful, Reply4xx
  <1>6. ASSUME NEW c \in Calls, \/ \E m \in Commands : Send(c, m)
                               \/ Reply(c) \/ Abandon(c) \/ Insert(c)
                               \/ Handle(c) \/ ReadPool(c) \/ Save(c)
        PROVE  ToldOK'
    <2>1. \E l \in Labels \ {"answered"} : Goto(c, l)
      BY <1>6 DEF Send, Reply, Abandon, Insert, Handle, ReadPool, Save, Recorded, Labels, Open
    <2>2. \A d \in Calls : d # c => call'[d] = call[d]
      BY <1>1, <1>6 DEF Send, Reply, Abandon, Insert, Handle, ReadPool, Save, Recorded
    <2> QED
      BY <1>3, <2>1, <2>2
  <1>7. ASSUME NEW c \in Calls, SendWithoutKey(c)
        PROVE  ToldOK'
    BY <1>4, <1>5, <1>7 DEF SendWithoutKey
  <1>8. ASSUME NEW c \in Calls, NEW r \in Routes, NEW f, ServeDirect(c, r, f)
        PROVE  ToldOK'
    <2> DEFINE writes == r \in Writers \cup Publishers
    <2>1. writes \in BOOLEAN
      OBVIOUS
    <2>2. \/ Answer(c, Success(r), writes)
          \/ \E e : \E w \in {FALSE, (e \in Internal /\ writes)} : Answer(c, Refusal(e), w)
      BY <1>8, Zenon DEF ServeDirect
    <2> HIDE DEF writes
    <2>3. CASE Answer(c, Success(r), writes)
      <3>1. Truthful(Success(r), writes)
        BY SuccessIs DEF Truthful, Reply4xx
      <3> QED
        BY <1>4, <2>1, <2>3, <3>1
    <2>4. ASSUME NEW e, NEW w \in {FALSE, (e \in Internal /\ writes)}, Answer(c, Refusal(e), w)
          PROVE  ToldOK'
      <3>1. w \in BOOLEAN
        BY <2>1, <2>4
      <3>2. Truthful(Refusal(e), w)
        <4>1. CASE e = "internal"
          BY <1>5, <3>1, <4>1 DEF ServerError
        <4>2. CASE e # "internal"
          BY <4>2, RefusalIs DEF Internal, Truthful
        <4> QED
          BY <4>1, <4>2
      <3> QED
        BY <1>4, <2>4, <3>1, <3>2
    <2> QED
      BY <2>2, <2>3, <2>4
  <1>9. ASSUME NEW c \in Calls, Replay(c)
        PROVE  ToldOK'
    <2> DEFINE r == row[Key(c)]
    <2>1. r # NoRow /\ r \in Rows
      BY <1>9, CallIs DEF Replay, Inv, StoreOK, LocksOK
    <2>2. r.answer \in Outcomes
      BY <2>1 DEF Rows
    <2>3. CASE Answer(c, KeyReused, FALSE)
      BY <1>4, <1>5, <2>3
    <2>4. CASE Answer(c, r.answer, FALSE)
      <3>1. Truthful(r.answer, FALSE)
        BY <2>2, OutcomeProblem DEF Truthful
      <3> QED
        BY <1>4, <2>4, <3>1
    <2>5. r.answer # NoAnswer
      BY <2>2, OutcomeIs
    <2> HIDE DEF r
    <2> QED
      BY <1>9, <2>1, <2>3, <2>4, <2>5 DEF Replay, r
  <1>10. ASSUME NEW c \in Calls, Fail(c) \/ LoseCommit(c)
         PROVE  ToldOK'
    <2>1. PICK w \in BOOLEAN : Answer(c, ServerError, w)
      BY <1>10 DEF Fail, LoseCommit
    <2> QED
      BY <1>4, <1>5, <2>1
  <1>11. ASSUME NEW c \in Calls, Record(c)
         PROVE  ToldOK'
    <2>1. at[c] = "record" /\ Answer(c, call[c].answer, saver = c) /\ (saver = c) \in BOOLEAN
      BY <1>11 DEF Record, CommitTx
    <2>2. call[c].answer \in Outcomes
      BY <2>1, CallIs DEF Sound
    <2>3. saver = c => call[c].answer.status = 201
      BY <2>2, OutcomeIs DEF EffectOK, Agrees
    <2>4. Truthful(call[c].answer, saver = c)
      BY <2>2, <2>3, OutcomeProblem DEF Truthful, Reply4xx
    <2> QED
      BY <1>4, <2>1, <2>4
  <1> QED
    BY Steps, <1>2, <1>6, <1>7, <1>8, <1>9, <1>10, <1>11, Zenon DEF OtherSave, vars

(* ... in every behaviour.                                                 *)
LEMMA ToldHolds == Spec => []ToldOK
  <1>1. Init => ToldOK
    BY DEF Init, ToldOK
  <1> QED
    BY <1>1, ToldStep, InvHolds, EffectHolds, PTL DEF Spec

(* What has been answered 201, by the request that ran or from the row,    *)
(* has created its unit; a 4xx comes from a request that wrote nothing;    *)
(* the problem is "internal" exactly with a 500: writeError and            *)
(* replayCachedResponse.                                                   *)
THEOREM AnswerIsTrueHolds == Spec => []AnswerIsTrue
  <1>1. Inv /\ FinalOK /\ EffectOK /\ ToldOK => AnswerIsTrue
    <2> SUFFICES ASSUME Inv, FinalOK, EffectOK, ToldOK, NEW c \in Calls, at[c] = "answered"
                 PROVE  LET a == call[c].answer
                            m == call[c].cmd
                        IN  /\ a.status = 201 /\ m # NoCommand => m.unit \in pool.units
                            /\ a.status \in 400..499 => ~call[c].wrote
                            /\ a.status = 500 <=> a.problem = "internal-error"
      BY DEF AnswerIsTrue
    <2> DEFINE a == call[c].answer
               m == call[c].cmd
    <2>1. ASSUME a.status = 201, m # NoCommand
          PROVE  m.unit \in pool.units
      <3>1. Final(row, m, a) /\ m \in Commands
        BY <2>1, CallIs DEF FinalOK, Settles, Records
      <3>2. m.key \in Keys /\ m.unit \in WorkUnits /\ row[m.key] # NoRow /\ row[m.key] \in Rows
        BY <3>1, CommandIs DEF Final, Inv, StoreOK
      <3>3. a = row[m.key].answer /\ row[m.key].unit = m.unit
        BY <2>1, <3>1, OtherAnswers DEF Final, Verdict
      <3>4. a \in Outcomes
        BY <3>2, <3>3 DEF Rows
      <3>5. Made(m.key, m.unit)
        BY <2>1, <3>2, <3>3, <3>4, OutcomeIs DEF Made
      <3> QED
        BY <3>2, <3>5 DEF EffectOK, RowsAgree
    <2> QED
      BY <2>1 DEF ToldOK, Truthful, Reply4xx
  <1> QED
    BY <1>1, InvHolds, FinalHolds, EffectHolds, ToldHolds, PTL

=============================================================================
