----------------------------- MODULE ControlProofs -----------------------------
(***************************************************************************)
(* Control: what the exit code says of the jobs and of the processes, and  *)
(* when systemd may refuse a start, for any set of units, any number of    *)
(* crashes and of commands of the other client, and any faults.            *)
(*                                                                         *)
(* A job of the command can be taken over by another client's, joined by   *)
(* it or outlive the command; so the invariant follows each job from the   *)
(* hand-over to the last look, next to what the unit has done since.       *)
(***************************************************************************)
EXTENDS Control, TLAPS

Unsent == pc \in {"show", "reset"}    \* the verb has not been handed over

\* Until the verb is handed over the command has no job, and nothing has failed.
NoneYet == Unsent => err = "none" /\ \A u \in Units : ~job[u].mine /\ outcome[u] = "none"

\* A job of the command is for a selected unit and is not over; a stop stays a stop.
OwnJobs ==
    \A u \in Units : job[u].mine =>
        /\ u \in selected
        /\ outcome[u] = "none"
        /\ verb = "stop" => job[u].verb = "stop"

\* A restart's job is in its first half, or in the second with the unit stopped; once
\* it is done the unit has a new process.
Restarts ==
    \A u \in Units :
        /\ before[u] <= unit[u].runs
        /\ verb = "restart" =>
              /\ job[u].mine => \/ job[u].verb = "restart"
                                \/ job[u].verb = "start" /\ unit[u].state # "active"
              /\ outcome[u] = "done" => unit[u].runs > before[u]

AllDone == \A u \in selected : outcome[u] = "done"

\* No error, and later no exit code but 0, means that every job was done.
OkIsDone ==
    /\ pc = "classify" /\ err = "none" => AllDone
    /\ pc \in {"verify", "exited"} /\ result = "ok" => AllDone

\* systemctl leaves a job behind only when it was killed or ended by itself.
LeftBehind ==
    (\E u \in Units : job[u].mine) =>
        /\ pc = "classify" => err # "none" /\ (Killed \/ broken)
        /\ pc \in {"verify", "exited"} =>
              \/ result \in {"timeout", "interrupt"}
              \/ broken /\ result \in {"check", "denied"}

\* A start limit of a selected unit is still to be reset, or has an excuse.
Limits ==
    /\ ~Unsent => limited = {}
    /\ verb # "stop" /\ pc # "show" =>
          \A u \in selected : unit[u].limit => u \in limited \cup excused

JobsInv   == TypeOK /\ NoneYet /\ OwnJobs
ResultInv == JobsInv /\ Restarts /\ OkIsDone /\ LeftBehind
LimitInv  == JobsInv /\ Limits /\ StartNotRefused

-----------------------------------------------------------------------------
(* Types. *)

UnitRecord == [state : {"inactive", "active", "failed"}, limit : BOOLEAN, runs : Nat]
JobRecord  == [verb : {"none", "start", "stop", "restart"}, mine : BOOLEAN]
Outcomes   == {"none", "done", "refused", "failed", "canceled"}

\* What TypeOK says of systemd, one unit at a time.
LEMMA Values ==
    ASSUME TypeOK, NEW u \in Units
    PROVE  /\ unit[u] \in UnitRecord /\ job[u] \in JobRecord /\ outcome[u] \in Outcomes
           /\ unit[u].state \in {"inactive", "active", "failed"}
           /\ unit[u].limit \in BOOLEAN /\ unit[u].runs \in Nat
           /\ job[u].mine \in BOOLEAN
BY DEF TypeOK, UnitRecord, JobRecord, Outcomes

\* Systemd stays of its type when one unit changes to something of its type.
LEMMA SystemdType ==
    ASSUME TypeOK, NEW u \in Units, NEW r \in UnitRecord, NEW j \in JobRecord, NEW o \in Outcomes
    PROVE  /\ [unit EXCEPT ![u] = r] \in [Units -> UnitRecord]
           /\ [job EXCEPT ![u] = j] \in [Units -> JobRecord]
           /\ [outcome EXCEPT ![u] = o] \in [Units -> Outcomes]
BY DEF TypeOK, UnitRecord, JobRecord, Outcomes

\* No job is a job record, and so is a queued one.
LEMMA JobType ==
    /\ NoJob \in JobRecord
    /\ TypeOK => \A u \in Units, v \in {"start", "stop", "restart"}, m \in BOOLEAN :
                    Queued(u, v, m) \in JobRecord
<1>1. NoJob \in JobRecord
  BY DEF NoJob, JobRecord
<1>2. ASSUME TypeOK, NEW u \in Units, NEW v \in {"start", "stop", "restart"}, NEW m \in BOOLEAN
      PROVE  Queued(u, v, m) \in JobRecord
  <2>1. (m \/ (job[u].verb = v /\ job[u].mine)) \in BOOLEAN
    BY <1>2, Values, Zenon
  <2> QED
    BY <2>1 DEF Queued, JobRecord
<1> QED
  BY <1>1, <1>2

\* The initial states are of their types.
LEMMA TypeInit == Init => TypeOK
<1> SUFFICES ASSUME Init PROVE TypeOK
  OBVIOUS
<1> DEFINE R == {[state |-> "inactive", limit |-> FALSE, runs |-> 0],
                 [state |-> "active", limit |-> FALSE, runs |-> 1],
                 [state |-> "failed", limit |-> TRUE, runs |-> 1]}
<1>1. unit \in [Units -> UnitRecord]
  <2>1. R \subseteq UnitRecord
    BY DEF UnitRecord
  <2>2. unit \in [Units -> R]
    BY DEF Init
  <2> HIDE DEF R
  <2> QED
    BY <2>1, <2>2
<1>2. job \in [Units -> JobRecord]
  BY JobType DEF Init
<1> QED
  BY <1>1, <1>2, ControlAssumption DEF Init, TypeOK, Codes, UnitRecord, JobRecord

\* TypeOK, with the sets that the state of systemd is drawn from named.
LEMMA TypeParts ==
    TypeOK <=> /\ verb \in Verbs
               /\ selected \in SUBSET Units
               /\ pc \in {"show", "reset", "wait", "classify", "verify", "exited"}
               /\ cancelled \in BOOLEAN /\ expired \in BOOLEAN
               /\ limited \in SUBSET Units
               /\ err \in {"none", "failed", "denied", "killed"}
               /\ result \in Codes
               /\ unit \in [Units -> UnitRecord]
               /\ job \in [Units -> JobRecord]
               /\ outcome \in [Units -> Outcomes]
               /\ others \in Nat /\ crashes \in Nat
               /\ before \in [Units -> Nat]
               /\ excused \in SUBSET Units
               /\ broken \in BOOLEAN
BY DEF TypeOK, UnitRecord, JobRecord, Outcomes

\* Systemd is of its type, and only the unit u has changed.
Touches(u) ==
    /\ unit' \in [Units -> UnitRecord]
    /\ job' \in [Units -> JobRecord]
    /\ outcome' \in [Units -> Outcomes]
    /\ \A w \in Units \ {u} : unit'[w] = unit[w] /\ job'[w] = job[w] /\ outcome'[w] = outcome[w]

\* How an operation of systemd changes one unit.
LEMMA TouchLemma ==
    ASSUME TypeOK, NEW u \in Units, NEW r \in UnitRecord, NEW j \in JobRecord, NEW o \in Outcomes,
           unit' = [unit EXCEPT ![u] = r], job' = [job EXCEPT ![u] = j],
           outcome' = [outcome EXCEPT ![u] = o]
    PROVE  Touches(u) /\ unit'[u] = r /\ job'[u] = j /\ outcome'[u] = o
<1>1. unit' \in [Units -> UnitRecord] /\ job' \in [Units -> JobRecord] /\ outcome' \in [Units -> Outcomes]
  BY SystemdType
<1>2. unit'[u] = r /\ job'[u] = j /\ outcome'[u] = o
  BY DEF TypeOK
<1>3. \A w \in Units \ {u} : unit'[w] = unit[w] /\ job'[w] = job[w] /\ outcome'[w] = outcome[w]
  BY DEF TypeOK
<1> QED
  BY <1>1, <1>2, <1>3 DEF Touches

\* What stays the same may be written as a change.
LEMMA Untouched ==
    ASSUME TypeOK, NEW u \in Units
    PROVE  /\ unit = [unit EXCEPT ![u] = unit[u]]
           /\ job = [job EXCEPT ![u] = job[u]]
           /\ outcome = [outcome EXCEPT ![u] = outcome[u]]
BY DEF TypeOK

\* A stop ends a stop's job, and is the first half of a restart's.
LEMMA StopEffect ==
    ASSUME TypeOK, NEW u \in Units, StopJob(u)
    PROVE  /\ Touches(u)
           /\ unit'[u].state # "active" /\ unit'[u].limit = unit[u].limit /\ unit'[u].runs = unit[u].runs
           /\ \/ /\ job[u].verb = "stop" /\ ~job'[u].mine
                 /\ outcome'[u] = IF job[u].mine THEN "done" ELSE outcome[u]
              \/ /\ job[u].verb = "restart" /\ job'[u].verb = "start" /\ job'[u].mine = job[u].mine
                 /\ outcome'[u] = outcome[u]
<1> DEFINE r == [unit[u] EXCEPT !.state = IF @ = "active" THEN "inactive" ELSE @]
           j == IF job[u].verb = "stop" THEN NoJob ELSE [job[u] EXCEPT !.verb = "start"]
           o == IF job[u].verb = "stop" /\ job[u].mine THEN "done" ELSE outcome[u]
<1>1. unit[u] \in UnitRecord /\ job[u] \in JobRecord /\ outcome[u] \in Outcomes
  BY Values
<1>2. /\ r \in UnitRecord
      /\ r.state # "active" /\ r.limit = unit[u].limit /\ r.runs = unit[u].runs
  BY <1>1 DEF UnitRecord
<1>3. [job[u] EXCEPT !.verb = "start"] \in JobRecord
  BY <1>1 DEF JobRecord
<1>4. j \in JobRecord
  BY <1>3, JobType
<1>5. o \in Outcomes
  BY <1>1 DEF Outcomes
<1>6. unit' = [unit EXCEPT ![u] = r]
  BY DEF StopJob
<1>7. job' = [job EXCEPT ![u] = j] /\ outcome' = [outcome EXCEPT ![u] = o]
  BY Untouched DEF StopJob, Result
<1>8. Touches(u) /\ unit'[u] = r /\ job'[u] = j /\ outcome'[u] = o
  <2> HIDE DEF r, j, o
  <2> QED
    BY <1>2, <1>4, <1>5, <1>6, <1>7, TouchLemma
<1>9. job[u].verb \in {"stop", "restart"}
  BY DEF StopJob
<1>10. CASE job[u].verb = "stop"
  BY <1>2, <1>8, <1>10 DEF NoJob
<1>11. CASE job[u].verb = "restart"
  BY <1>1, <1>2, <1>8, <1>11 DEF JobRecord
<1> QED
  BY <1>9, <1>10, <1>11

\* A start ends its job: the unit runs, is refused for its start limit, or fails.
LEMMA StartEffect ==
    ASSUME TypeOK, NEW u \in Units, StartJob(u)
    PROVE  /\ Touches(u)
           /\ job[u].verb = "start" /\ ~job'[u].mine
           /\ unit'[u].limit = unit[u].limit
           /\ ~job[u].mine => outcome'[u] = outcome[u]
           /\ \/ /\ unit'[u].runs = unit[u].runs
                 /\ unit[u].state = "active"
                 /\ job[u].mine => outcome'[u] = "done"
              \/ /\ unit'[u].runs = unit[u].runs
                 /\ unit[u].limit /\ (job[u].mine => outcome'[u] = "refused")
              \/ /\ unit'[u].runs = unit[u].runs + 1
                 /\ job[u].mine => outcome'[u] = "done"
              \/ /\ unit'[u].runs = unit[u].runs
                 /\ job[u].mine => outcome'[u] = "failed"
<1> DEFINE End(r, o) == /\ unit' = [unit EXCEPT ![u] = r]
                        /\ outcome' = [outcome EXCEPT ![u] = IF job[u].mine THEN o ELSE outcome[u]]
<1>1. unit[u] \in UnitRecord /\ outcome[u] \in Outcomes
  BY Values
<1>2. job' = [job EXCEPT ![u] = NoJob] /\ job[u].verb = "start"
  BY DEF StartJob
<1>3. ASSUME NEW r \in UnitRecord, NEW o \in Outcomes, End(r, o)
      PROVE  /\ Touches(u) /\ ~job'[u].mine /\ unit'[u] = r
             /\ outcome'[u] = IF job[u].mine THEN o ELSE outcome[u]
  <2> DEFINE p == IF job[u].mine THEN o ELSE outcome[u]
  <2>1. p \in Outcomes
    BY <1>1
  <2>2. Touches(u) /\ job'[u] = NoJob /\ unit'[u] = r /\ outcome'[u] = p
    <3> HIDE DEF p
    <3> QED
      BY <1>2, <1>3, <2>1, JobType, TouchLemma DEF End, p
  <2> QED
    BY <2>2 DEF NoJob
<1>4. "done" \in Outcomes /\ "refused" \in Outcomes /\ "failed" \in Outcomes
  BY DEF Outcomes
<1>5. CASE unit[u].state = "active" /\ unit' = unit /\ outcome' = Result(u, "done")
  <2>1. End(unit[u], "done")
    BY <1>5, Untouched DEF Result
  <2> QED
    BY <1>1, <1>2, <1>3, <1>4, <1>5, <2>1
<1>6. CASE /\ unit[u].limit
           /\ unit' = [unit EXCEPT ![u].state = "failed"] /\ outcome' = Result(u, "refused")
  <2> DEFINE r == [unit[u] EXCEPT !.state = "failed"]
  <2>1. r \in UnitRecord /\ r.limit = unit[u].limit /\ r.runs = unit[u].runs
    BY <1>1 DEF UnitRecord
  <2>2. End(r, "refused")
    BY <1>6, Untouched DEF Result
  <2> QED
    BY <1>2, <1>3, <1>4, <1>6, <2>1, <2>2
<1>7. CASE /\ unit' = [unit EXCEPT ![u].state = "active", ![u].runs = @ + 1]
           /\ outcome' = Result(u, "done")
  <2> DEFINE r == [unit[u] EXCEPT !.state = "active", !.runs = @ + 1]
  <2>1. r \in UnitRecord /\ r.limit = unit[u].limit /\ r.runs = unit[u].runs + 1
    <3> DEFINE q == [unit[u] EXCEPT !.state = "active"]
    <3>1. q \in UnitRecord /\ q.limit = unit[u].limit /\ q.runs = unit[u].runs
      BY <1>1 DEF UnitRecord
    <3>2. r = [q EXCEPT !.runs = @ + 1]
      BY <1>1 DEF UnitRecord
    <3> HIDE DEF q, r
    <3> QED
      BY <3>1, <3>2 DEF UnitRecord
  <2>2. End(r, "done")
    BY <1>7, Untouched DEF Result, TypeOK
  <2> QED
    BY <1>2, <1>3, <1>4, <1>7, <2>1, <2>2
<1>8. CASE unit' = [unit EXCEPT ![u].state = "failed"] /\ outcome' = Result(u, "failed")
  <2> DEFINE r == [unit[u] EXCEPT !.state = "failed"]
  <2>1. r \in UnitRecord /\ r.limit = unit[u].limit /\ r.runs = unit[u].runs
    BY <1>1 DEF UnitRecord
  <2>2. End(r, "failed")
    BY <1>8, Untouched DEF Result
  <2> QED
    BY <1>2, <1>3, <1>4, <1>8, <2>1, <2>2
<1> QED
  BY <1>5, <1>6, <1>7, <1>8 DEF StartJob

\* A crash takes no job and leaves the unit restarted, or failed at its start limit.
LEMMA CrashEffect ==
    ASSUME TypeOK, NEW u \in Units, Crash(u)
    PROVE  /\ Touches(u)
           /\ unit[u].state = "active" /\ job'[u] = job[u] /\ outcome'[u] = outcome[u]
           /\ unit'[u].runs >= unit[u].runs
           /\ \/ unit'[u].limit = unit[u].limit /\ excused' = excused
              \/ excused' = IF pc = "show" THEN excused ELSE excused \cup {u}
<1>1. unit[u] \in UnitRecord /\ job[u] \in JobRecord /\ outcome[u] \in Outcomes
  BY Values
<1>2. unit[u].state = "active" /\ job' = [job EXCEPT ![u] = job[u]]
        /\ outcome' = [outcome EXCEPT ![u] = outcome[u]]
  BY Untouched DEF Crash, systemdVars
<1>3. CASE unit' = [unit EXCEPT ![u].runs = @ + 1] /\ excused' = excused
  <2> DEFINE r == [unit[u] EXCEPT !.runs = @ + 1]
  <2>1. r \in UnitRecord /\ r.limit = unit[u].limit /\ r.runs >= unit[u].runs
    BY <1>1 DEF UnitRecord
  <2>2. unit' = [unit EXCEPT ![u] = r]
    BY <1>3
  <2>3. Touches(u) /\ unit'[u] = r /\ job'[u] = job[u] /\ outcome'[u] = outcome[u]
    <3> HIDE DEF r
    <3> QED
      BY <1>1, <1>2, <2>1, <2>2, TouchLemma
  <2> QED
    BY <1>2, <1>3, <2>1, <2>3
<1>4. CASE /\ unit' = [unit EXCEPT ![u].state = "failed", ![u].limit = TRUE]
           /\ excused' = IF pc = "show" THEN excused ELSE excused \cup {u}
  <2> DEFINE r == [unit[u] EXCEPT !.state = "failed", !.limit = TRUE]
  <2>1. r \in UnitRecord /\ r.runs >= unit[u].runs
    <3>1. r \in UnitRecord
      BY <1>1 DEF UnitRecord
    <3>2. r.runs = unit[u].runs /\ unit[u].runs \in Nat
      BY <1>1 DEF UnitRecord
    <3> QED
      BY <3>1, <3>2
  <2>2. unit' = [unit EXCEPT ![u] = r]
    BY <1>4 DEF TypeOK
  <2>3. Touches(u) /\ unit'[u] = r /\ job'[u] = job[u] /\ outcome'[u] = outcome[u]
    <3> HIDE DEF r
    <3> QED
      BY <1>1, <1>2, <2>1, <2>2, TouchLemma
  <2> QED
    BY <1>2, <1>4, <2>1, <2>3
<1> QED
  BY <1>3, <1>4 DEF Crash

\* The other client's job joins this command's of the same verb, and cancels any other.
LEMMA OtherEffect ==
    ASSUME TypeOK, NEW u \in Units, NEW v \in {"start", "stop", "restart"}, OtherCommand(u, v)
    PROVE  /\ Touches(u)
           /\ unit'[u] = unit[u]
           /\ \/ job'[u].mine /\ job[u].mine /\ job'[u].verb = job[u].verb /\ outcome'[u] = outcome[u]
              \/ ~job'[u].mine /\ ~job[u].mine /\ outcome'[u] = outcome[u]
              \/ ~job'[u].mine /\ job[u].mine /\ outcome'[u] = "canceled"
<1> DEFINE o == IF Replaces(u, v) THEN "canceled" ELSE outcome[u]
<1>1. unit[u] \in UnitRecord /\ job[u] \in JobRecord /\ outcome[u] \in Outcomes
  BY Values
<1>2. Queued(u, v, FALSE) \in JobRecord /\ o \in Outcomes
  BY <1>1, JobType DEF Outcomes
<1>3. /\ unit' = [unit EXCEPT ![u] = unit[u]] /\ job' = [job EXCEPT ![u] = Queued(u, v, FALSE)]
      /\ outcome' = [outcome EXCEPT ![u] = o]
  BY Untouched DEF OtherCommand
<1>4. Touches(u) /\ unit'[u] = unit[u] /\ job'[u] = Queued(u, v, FALSE) /\ outcome'[u] = o
  <2> HIDE DEF o
  <2> QED
    BY <1>1, <1>2, <1>3, TouchLemma
<1>5. job'[u].verb = v /\ (job'[u].mine <=> job[u].verb = v /\ job[u].mine)
  <2> DEFINE m == FALSE \/ (job[u].verb = v /\ job[u].mine)
  <2>1. job'[u] = [verb |-> v, mine |-> m]
    BY <1>4, Zenon DEF Queued
  <2>2. m <=> job[u].verb = v /\ job[u].mine
    OBVIOUS
  <2> HIDE DEF m
  <2> QED
    BY <2>1, <2>2
<1>6. outcome'[u] = IF job[u].verb # v /\ job[u].mine THEN "canceled" ELSE outcome[u]
  BY <1>4, Zenon DEF Replaces
<1>7. unit'[u] = unit[u] /\ Touches(u)
  BY <1>4
<1> QED
  BY <1>5, <1>6, <1>7, Zenon

\* The verb is queued for the units it is not refused for; the others have failed at once.
LEMMA SubmitEffect ==
    ASSUME TypeOK, Submit
    PROVE  /\ pc = "reset" /\ limited = {} /\ pc' = "wait" /\ err' \in {"none", "denied", "failed"}
           /\ job' \in [Units -> JobRecord] /\ outcome' \in [Units -> Outcomes]
           /\ before' \in [Units -> Nat]
           /\ UNCHANGED <<verb, selected, cancelled, expired, limited, result,
                          unit, others, crashes, excused, broken>>
           /\ \A u \in Units :
                 /\ before'[u] = unit[u].runs
                 /\ outcome'[u] \in {"none", "failed"}
                 /\ \/ job'[u].verb = verb /\ u \in selected /\ outcome'[u] = "none"
                    \/ job'[u] = job[u]
<1>1. PICK why \in {"none"} \cup Refusals, refused \in SUBSET selected :
        /\ err' = why
        /\ job' = [u \in Units |-> IF u \in selected \ refused THEN Queued(u, verb, TRUE)
                                                               ELSE job[u]]
        /\ outcome' = [u \in Units |-> IF u \in refused THEN "failed" ELSE "none"]
  BY Zenon DEF Submit
<1>2. verb \in {"start", "stop", "restart"}
  BY ControlAssumption DEF TypeOK
<1>3. \A u \in Units : Queued(u, verb, TRUE) \in JobRecord
  BY <1>2, JobType
<1>4. \A u \in Units : Queued(u, verb, TRUE).verb = verb
  BY DEF Queued
<1>5. /\ job' \in [Units -> JobRecord]
      /\ \A u \in Units : (u \in selected \ refused /\ job'[u].verb = verb) \/ job'[u] = job[u]
  BY <1>1, <1>3, <1>4, Values
<1>6. outcome' \in [Units -> Outcomes]
  BY <1>1 DEF Outcomes
<1>7. before' = [u \in Units |-> unit[u].runs]
  BY DEF Submit
<1>8. before' \in [Units -> Nat] /\ \A u \in Units : before'[u] = unit[u].runs
  BY <1>7, Values
<1>9. \A u \in Units : /\ outcome'[u] \in {"none", "failed"}
                       /\ u \in selected \ refused => outcome'[u] = "none"
  BY <1>1
<1>10. err' \in {"none", "denied", "failed"}
  BY <1>1 DEF Refusals
<1>11. /\ pc = "reset" /\ limited = {} /\ pc' = "wait"
       /\ UNCHANGED <<verb, selected, cancelled, expired, limited, result,
                      unit, others, crashes, excused, broken>>
  BY DEF Submit
<1> QED
  BY <1>5, <1>6, <1>8, <1>9, <1>10, <1>11

\* Every step keeps the types.
LEMMA TypeStep == TypeOK /\ [Next]_vars => TypeOK'
<1> SUFFICES ASSUME TypeOK, [Next]_vars PROVE TypeOK'
  OBVIOUS
<1>0. TypeOK' <=> /\ verb' \in Verbs
                  /\ selected' \in SUBSET Units
                  /\ pc' \in {"show", "reset", "wait", "classify", "verify", "exited"}
                  /\ cancelled' \in BOOLEAN /\ expired' \in BOOLEAN
                  /\ limited' \in SUBSET Units
                  /\ err' \in {"none", "failed", "denied", "killed"}
                  /\ result' \in Codes
                  /\ unit' \in [Units -> UnitRecord]
                  /\ job' \in [Units -> JobRecord]
                  /\ outcome' \in [Units -> Outcomes]
                  /\ others' \in Nat /\ crashes' \in Nat
                  /\ before' \in [Units -> Nat]
                  /\ excused' \in SUBSET Units
                  /\ broken' \in BOOLEAN
  BY DEF TypeOK, UnitRecord, JobRecord, Outcomes
<1> USE TypeParts, <1>0 DEF cliVars, systemdVars
<1>1. CASE FirstShow
  BY <1>1 DEF FirstShow, AtLimit
<1>2. ASSUME NEW u \in Units, ResetFailed(u) PROVE TypeOK'
  <2>1. unit' \in [Units -> UnitRecord]
    <3> DEFINE r == [unit[u] EXCEPT !.limit = FALSE, !.state = IF @ = "failed" THEN "inactive" ELSE @]
    <3>1. r \in UnitRecord
      BY Values DEF UnitRecord
    <3>2. [unit EXCEPT ![u] = r] \in [Units -> UnitRecord]
      BY <3>1
    <3> QED
      BY <1>2, <3>2 DEF ResetFailed
  <2> QED
    BY <1>2, <2>1 DEF ResetFailed
<1>3. CASE Submit
  BY <1>3, SubmitEffect
<1>4. CASE SubmitKilled
  BY <1>4 DEF SubmitKilled
<1>5. CASE JobsEnd
  BY <1>5 DEF JobsEnd, Error
<1>6. CASE JobsKilled
  BY <1>6 DEF JobsKilled
<1>6b. CASE JobsBroken
  BY <1>6b DEF JobsBroken
<1>7. CASE Classify
  BY <1>7 DEF Classify, Code, Codes
<1>8. CASE Verify
  BY <1>8 DEF Verify, Codes
<1>9. CASE Expire
  BY <1>9 DEF Expire
<1>10. CASE Interrupt
  BY <1>10 DEF Interrupt
<1>11. ASSUME NEW u \in Units, StopJob(u) PROVE TypeOK'
  <2>1. Touches(u)
    BY <1>11, StopEffect
  <2> QED
    BY <1>11, <2>1 DEF StopJob, Touches
<1>12. ASSUME NEW u \in Units, StartJob(u) PROVE TypeOK'
  <2>1. Touches(u)
    BY <1>12, StartEffect
  <2> QED
    BY <1>12, <2>1 DEF StartJob, Touches
<1>13. ASSUME NEW u \in Units, Crash(u) PROVE TypeOK'
  <2>1. Touches(u) /\ excused' \in SUBSET Units
    BY <1>13, CrashEffect
  <2> QED
    BY <1>13, <2>1 DEF Crash, Touches
<1>14. ASSUME NEW u \in Units, NEW v \in {"start", "stop", "restart"}, OtherCommand(u, v) PROVE TypeOK'
  <2>1. Touches(u)
    BY <1>14, OtherEffect
  <2>2. others' = others + 1 /\ UNCHANGED <<cliVars, crashes, before, excused, broken>>
    BY <1>14 DEF OtherCommand
  <2> QED
    BY <2>1, <2>2 DEF Touches
<1>15. CASE UNCHANGED vars
  BY <1>15 DEF vars
<1> QED
  BY <1>1, <1>2, <1>3, <1>4, <1>5, <1>6, <1>6b, <1>7, <1>8, <1>9, <1>10, <1>11, <1>12, <1>13, <1>14, <1>15
     DEF Next, Command, Systemd

\* Every state is of its type.
LEMMA TypeCorrect == Spec => []TypeOK
BY TypeInit, TypeStep, PTL DEF Spec

-----------------------------------------------------------------------------
(* The jobs. *)

\* A job of the command is one of a selected unit, and it ends with its outcome.
LEMMA JobsStep == JobsInv /\ [Next]_vars => NoneYet' /\ OwnJobs'
<1> SUFFICES ASSUME TypeOK, NoneYet, OwnJobs, [Next]_vars PROVE NoneYet' /\ OwnJobs'
  BY DEF JobsInv
<1> USE DEF NoneYet, OwnJobs, Unsent, cliVars, systemdVars
<1>1. CASE FirstShow
  BY <1>1 DEF FirstShow
<1>2. ASSUME NEW u \in Units, ResetFailed(u) PROVE NoneYet' /\ OwnJobs'
  BY <1>2 DEF ResetFailed
<1>3. CASE Submit
  BY <1>3, SubmitEffect
<1>4. CASE SubmitKilled
  BY <1>4 DEF SubmitKilled
<1>5. CASE JobsEnd
  BY <1>5 DEF JobsEnd
<1>6. CASE JobsKilled
  BY <1>6 DEF JobsKilled
<1>6b. CASE JobsBroken
  BY <1>6b DEF JobsBroken
<1>7. CASE Classify
  BY <1>7 DEF Classify
<1>8. CASE Verify
  BY <1>8 DEF Verify
<1>9. CASE Expire
  BY <1>9 DEF Expire
<1>10. CASE Interrupt
  BY <1>10 DEF Interrupt
<1>11. ASSUME NEW u \in Units, StopJob(u) PROVE NoneYet' /\ OwnJobs'
  <2>1. UNCHANGED cliVars
    BY <1>11 DEF StopJob
  <2> QED
    BY <1>11, <2>1, StopEffect DEF Touches
<1>12. ASSUME NEW u \in Units, StartJob(u) PROVE NoneYet' /\ OwnJobs'
  <2>1. UNCHANGED cliVars
    BY <1>12 DEF StartJob
  <2> QED
    BY <1>12, <2>1, StartEffect DEF Touches
<1>13. ASSUME NEW u \in Units, Crash(u) PROVE NoneYet' /\ OwnJobs'
  <2>1. UNCHANGED cliVars
    BY <1>13 DEF Crash
  <2> QED
    BY <1>13, <2>1, CrashEffect DEF Touches
<1>14. ASSUME NEW u \in Units, NEW v \in {"start", "stop", "restart"}, OtherCommand(u, v)
       PROVE  NoneYet' /\ OwnJobs'
  <2>1. UNCHANGED cliVars
    BY <1>14 DEF OtherCommand
  <2> QED
    BY <1>14, <2>1, OtherEffect DEF Touches
<1>15. CASE UNCHANGED vars
  BY <1>15 DEF vars
<1> QED
  BY <1>1, <1>2, <1>3, <1>4, <1>5, <1>6, <1>6b, <1>7, <1>8, <1>9, <1>10, <1>11, <1>12, <1>13, <1>14, <1>15
     DEF Next, Command, Systemd

\* JobsInv holds of every behaviour.
LEMMA JobsCorrect == Spec => []JobsInv
<1>1. Init => JobsInv
  BY TypeInit DEF Init, JobsInv, NoneYet, OwnJobs, NoJob
<1>2. JobsInv /\ [Next]_vars => JobsInv'
  BY TypeStep, JobsStep DEF JobsInv
<1> QED
  BY <1>1, <1>2, PTL DEF Spec

-----------------------------------------------------------------------------
(* Restart. *)

\* A unit whose restart is done has a new process, whoever else queued jobs meanwhile.
LEMMA RestartsStep == JobsInv /\ Restarts /\ [Next]_vars => Restarts'
<1> SUFFICES ASSUME TypeOK, NoneYet, OwnJobs, Restarts, [Next]_vars PROVE Restarts'
  BY DEF JobsInv
<1> USE DEF Restarts, cliVars, systemdVars
<1>0. \A w \in Units : unit[w].runs \in Nat /\ before[w] \in Nat
  BY Values DEF TypeOK
<1>1. CASE FirstShow
  BY <1>1 DEF FirstShow
<1>2. ASSUME NEW u \in Units, ResetFailed(u) PROVE Restarts'
  <2>1. \A w \in Units : unit'[w].runs = unit[w].runs /\ ~job'[w].mine /\ outcome'[w] = "none"
    BY <1>2 DEF ResetFailed, NoneYet, Unsent, TypeOK
  <2>2. UNCHANGED <<before, verb>>
    BY <1>2 DEF ResetFailed
  <2> QED
    BY <2>1, <2>2
<1>3. CASE Submit
  <2>1. \A w \in Units : ~job[w].mine
    BY <1>3, SubmitEffect DEF NoneYet, Unsent
  <2> QED
    BY <1>0, <1>3, <2>1, SubmitEffect
<1>4. CASE SubmitKilled
  BY <1>4 DEF SubmitKilled
<1>5. CASE JobsEnd
  BY <1>5 DEF JobsEnd
<1>6. CASE JobsKilled
  BY <1>6 DEF JobsKilled
<1>6b. CASE JobsBroken
  BY <1>6b DEF JobsBroken
<1>7. CASE Classify
  BY <1>7 DEF Classify
<1>8. CASE Verify
  BY <1>8 DEF Verify
<1>9. CASE Expire
  BY <1>9 DEF Expire
<1>10. CASE Interrupt
  BY <1>10 DEF Interrupt
<1>11. ASSUME NEW u \in Units, StopJob(u) PROVE Restarts'
  <2>1. UNCHANGED <<verb, before>>
    BY <1>11 DEF StopJob
  <2> QED
    BY <1>11, <2>1, StopEffect DEF Touches
<1>12. ASSUME NEW u \in Units, StartJob(u) PROVE Restarts'
  <2>1. UNCHANGED <<verb, before>>
    BY <1>12 DEF StartJob
  <2> QED
    BY <1>0, <1>12, <2>1, StartEffect DEF Touches, OwnJobs
<1>13. ASSUME NEW u \in Units, Crash(u) PROVE Restarts'
  <2>1. UNCHANGED <<verb, before>>
    BY <1>13 DEF Crash
  <2>2. unit'[u].runs \in Nat
    BY <1>13, CrashEffect DEF Touches, UnitRecord
  <2> QED
    BY <1>0, <1>13, <2>1, <2>2, CrashEffect DEF Touches
<1>14. ASSUME NEW u \in Units, NEW v \in {"start", "stop", "restart"}, OtherCommand(u, v)
       PROVE  Restarts'
  <2>1. UNCHANGED <<verb, before>>
    BY <1>14 DEF OtherCommand
  <2> QED
    BY <1>14, <2>1, OtherEffect DEF Touches
<1>15. CASE UNCHANGED vars
  BY <1>15 DEF vars
<1> QED
  BY <1>1, <1>2, <1>3, <1>4, <1>5, <1>6, <1>6b, <1>7, <1>8, <1>9, <1>10, <1>11, <1>12, <1>13, <1>14, <1>15
     DEF Next, Command, Systemd

-----------------------------------------------------------------------------
(* The exit code. *)

\* What systemd does takes no outcome away and gives the command no job.
LEMMA SystemdKeeps ==
    ASSUME JobsInv, Systemd
    PROVE  /\ UNCHANGED <<cliVars, broken>>
           /\ \A w \in Units : /\ job'[w].mine => job[w].mine
                               /\ outcome[w] = "done" => outcome'[w] = "done"
<1> USE DEF JobsInv, OwnJobs
<1>1. ASSUME NEW u \in Units, StopJob(u)
      PROVE  /\ UNCHANGED <<cliVars, broken>>
             /\ \A w \in Units : /\ job'[w].mine => job[w].mine
                                 /\ outcome[w] = "done" => outcome'[w] = "done"
  <2>1. UNCHANGED <<cliVars, broken>>
    BY <1>1 DEF StopJob
  <2> QED
    BY <1>1, <2>1, StopEffect DEF Touches
<1>2. ASSUME NEW u \in Units, StartJob(u)
      PROVE  /\ UNCHANGED <<cliVars, broken>>
             /\ \A w \in Units : /\ job'[w].mine => job[w].mine
                                 /\ outcome[w] = "done" => outcome'[w] = "done"
  <2>1. UNCHANGED <<cliVars, broken>>
    BY <1>2 DEF StartJob
  <2> QED
    BY <1>2, <2>1, StartEffect DEF Touches
<1>3. ASSUME NEW u \in Units, Crash(u)
      PROVE  /\ UNCHANGED <<cliVars, broken>>
             /\ \A w \in Units : /\ job'[w].mine => job[w].mine
                                 /\ outcome[w] = "done" => outcome'[w] = "done"
  <2>1. UNCHANGED <<cliVars, broken>>
    BY <1>3 DEF Crash
  <2> QED
    BY <1>3, <2>1, CrashEffect DEF Touches
<1>4. ASSUME NEW u \in Units, NEW v \in {"start", "stop", "restart"}, OtherCommand(u, v)
      PROVE  /\ UNCHANGED <<cliVars, broken>>
             /\ \A w \in Units : /\ job'[w].mine => job[w].mine
                                 /\ outcome[w] = "done" => outcome'[w] = "done"
  <2>1. UNCHANGED <<cliVars, broken>>
    BY <1>4 DEF OtherCommand
  <2> QED
    BY <1>4, <2>1, OtherEffect DEF Touches
<1> QED
  BY <1>1, <1>2, <1>3, <1>4 DEF Systemd

\* An exit code of 0 is earned by every job, and a job is left only by a systemctl that
\* was killed or ended by itself.
LEMMA CodeStep == ResultInv /\ [Next]_vars => OkIsDone' /\ LeftBehind'
<1> SUFFICES ASSUME JobsInv, OkIsDone, LeftBehind, [Next]_vars PROVE OkIsDone' /\ LeftBehind'
  BY DEF ResultInv
<1> USE DEF OkIsDone, LeftBehind, AllDone, cliVars, systemdVars, Killed
<1>1. CASE FirstShow
  BY <1>1 DEF FirstShow
<1>2. ASSUME NEW u \in Units, ResetFailed(u) PROVE OkIsDone' /\ LeftBehind'
  BY <1>2 DEF ResetFailed
<1>3. CASE Submit
  BY <1>3, SubmitEffect DEF JobsInv
<1>4. CASE SubmitKilled
  BY <1>4 DEF SubmitKilled
<1>5. CASE JobsEnd
  <2>1. \A u \in Units : ~job[u].mine
    BY <1>5 DEF JobsEnd, JobsInv, OwnJobs
  <2>2. err' = "none" => AllDone
    <3> SUFFICES ASSUME err' = "none", NEW u \in selected PROVE outcome[u] = "done"
      OBVIOUS
    <3>1. outcome[u] \in Outcomes
      BY Values DEF JobsInv, TypeOK
    <3>2. u \notin FailedJobs /\ outcome[u] # "none"
      BY <1>5 DEF JobsEnd, Error
    <3> QED
      BY <3>1, <3>2 DEF Outcomes, FailedJobs
  <2> QED
    BY <1>5, <2>1, <2>2 DEF JobsEnd
<1>6. CASE JobsKilled
  BY <1>6 DEF JobsKilled
<1>6b. CASE JobsBroken
  <2>1. broken' /\ pc' = "classify" /\ err' # "none"
    BY <1>6b DEF JobsBroken
  <2>2. OkIsDone'
    BY <2>1
  <2>3. LeftBehind'
    BY <2>1, Zenon
  <2> QED
    BY <2>2, <2>3
<1>7. CASE Classify
  BY <1>7 DEF Classify, Code
<1>8. CASE Verify
  BY <1>8 DEF Verify
<1>9. CASE Expire
  BY <1>9 DEF Expire
<1>10. CASE Interrupt
  BY <1>10 DEF Interrupt
<1>11. CASE Systemd
  <2>1. selected \subseteq Units
    BY DEF JobsInv, TypeOK
  <2> QED
    BY <1>11, <2>1, SystemdKeeps
<1>12. CASE UNCHANGED vars
  BY <1>12 DEF vars
<1> QED
  BY <1>1, <1>2, <1>3, <1>4, <1>5, <1>6, <1>6b, <1>7, <1>8, <1>9, <1>10, <1>11, <1>12 DEF Next, Command

\* The strengthening of the two properties of the exit code.
LEMMA ResultCorrect == Spec => []ResultInv
<1>1. Init => ResultInv
  <2> SUFFICES ASSUME Init PROVE ResultInv
    OBVIOUS
  <2>1. TypeOK
    BY TypeInit
  <2>2. JobsInv
    BY <2>1 DEF Init, JobsInv, NoneYet, OwnJobs, NoJob
  <2>3. Restarts
    BY <2>1, Values DEF Init, Restarts, NoJob
  <2>4. OkIsDone /\ LeftBehind
    BY DEF Init, OkIsDone, LeftBehind, NoJob
  <2> QED
    BY <2>2, <2>3, <2>4 DEF ResultInv
<1>2. ResultInv /\ [Next]_vars => ResultInv'
  BY TypeStep, JobsStep, RestartsStep, CodeStep DEF ResultInv, JobsInv
<1> QED
  BY <1>1, <1>2, PTL DEF Spec

\* `restart' exits 0 only when every selected unit has got a new process since the verb
\* was handed over, for any number of crashes and of other commands.
THEOREM RestartCorrect == Spec => []RestartIsReal
<1>1. ResultInv => RestartIsReal
  <2> SUFFICES ASSUME ResultInv, Exited, verb = "restart", result = "ok", NEW u \in selected
               PROVE  unit[u].runs > before[u]
    BY DEF RestartIsReal
  <2>1. u \in Units /\ outcome[u] = "done"
    BY DEF ResultInv, JobsInv, TypeOK, OkIsDone, AllDone, Exited
  <2> QED
    BY <2>1 DEF ResultInv, Restarts
<1> QED
  BY <1>1, ResultCorrect, PTL

\* A job of the command is left behind by a timeout or an interrupt, by a failure or a
\* denial only when systemctl ended by itself, and never by a success.
THEOREM LeftJobsCorrect == Spec => []LeftJobsAreTold
<1>1. ResultInv => LeftJobsAreTold
  BY DEF ResultInv, LeftBehind, LeftJobsAreTold, Exited
<1> QED
  BY <1>1, ResultCorrect, PTL

-----------------------------------------------------------------------------
(* The start limit. *)

\* A start limit that the command has seen and not yet reset is on its list; one that
\* it could not see or reset in time is excused, and only such a one refuses a start.
LEMMA LimitStep == LimitInv /\ [Next]_vars => Limits' /\ StartNotRefused'
<1> SUFFICES ASSUME TypeOK, NoneYet, OwnJobs, Limits, StartNotRefused, [Next]_vars
             PROVE  Limits' /\ StartNotRefused'
  BY DEF LimitInv, JobsInv
<1> USE DEF Limits, StartNotRefused, Unsent, cliVars, systemdVars
<1>0. selected \subseteq Units
  BY DEF TypeOK
<1>1. CASE FirstShow
  BY <1>1 DEF FirstShow, AtLimit
<1>2. ASSUME NEW u \in Units, ResetFailed(u) PROVE Limits' /\ StartNotRefused'
  <2>1. \A w \in Units \ {u} : unit'[w] = unit[w]
    BY <1>2 DEF ResetFailed, TypeOK
  <2>2. unit'[u].limit => u \in excused'
    BY <1>2, Values DEF ResetFailed, TypeOK
  <2>3. /\ pc = "reset" /\ limited' = limited \ {u} /\ excused \subseteq excused'
        /\ UNCHANGED <<verb, selected, pc, outcome>>
    BY <1>2 DEF ResetFailed
  <2> QED
    BY <1>0, <2>1, <2>2, <2>3
<1>3. CASE Submit
  BY <1>3, SubmitEffect
<1>4. CASE SubmitKilled
  BY <1>4 DEF SubmitKilled
<1>5. CASE JobsEnd
  BY <1>5 DEF JobsEnd
<1>6. CASE JobsKilled
  BY <1>6 DEF JobsKilled
<1>6b. CASE JobsBroken
  BY <1>6b DEF JobsBroken
<1>7. CASE Classify
  BY <1>7 DEF Classify
<1>8. CASE Verify
  BY <1>8 DEF Verify
<1>9. CASE Expire
  BY <1>9 DEF Expire
<1>10. CASE Interrupt
  BY <1>10 DEF Interrupt
<1>11. ASSUME NEW u \in Units, StopJob(u) PROVE Limits' /\ StartNotRefused'
  <2>1. UNCHANGED <<cliVars, excused>>
    BY <1>11 DEF StopJob
  <2> QED
    BY <1>0, <1>11, <2>1, StopEffect DEF Touches
<1>12. ASSUME NEW u \in Units, StartJob(u) PROVE Limits' /\ StartNotRefused'
  <2>1. UNCHANGED <<cliVars, excused>>
    BY <1>12 DEF StartJob
  <2>2. Touches(u) /\ unit'[u].limit = unit[u].limit
    BY <1>12, StartEffect
  <2>3. Limits'
    BY <1>0, <2>1, <2>2 DEF Touches
  <2>4. outcome'[u] = "refused" => u \in excused
    <3>1. CASE job[u].mine
      <4>1. u \in selected /\ verb # "stop" /\ ~Unsent
        BY <1>12, <3>1, StartEffect DEF OwnJobs, NoneYet
      <4>2. unit[u].limit => u \in excused
        BY <4>1
      <4> QED
        BY <1>12, <3>1, <4>2, StartEffect
    <3>2. CASE ~job[u].mine
      BY <1>12, <3>2, StartEffect
    <3> QED
      BY <3>1, <3>2
  <2> QED
    BY <2>1, <2>2, <2>3, <2>4 DEF Touches
<1>13. ASSUME NEW u \in Units, Crash(u) PROVE Limits' /\ StartNotRefused'
  <2>1. UNCHANGED cliVars
    BY <1>13 DEF Crash
  <2> QED
    BY <1>0, <1>13, <2>1, CrashEffect DEF Touches
<1>14. ASSUME NEW u \in Units, NEW v \in {"start", "stop", "restart"}, OtherCommand(u, v)
       PROVE  Limits' /\ StartNotRefused'
  <2>1. UNCHANGED <<cliVars, excused>>
    BY <1>14 DEF OtherCommand
  <2> QED
    BY <1>0, <1>14, <2>1, OtherEffect DEF Touches
<1>15. CASE UNCHANGED vars
  BY <1>15 DEF vars
<1> QED
  BY <1>1, <1>2, <1>3, <1>4, <1>5, <1>6, <1>6b, <1>7, <1>8, <1>9, <1>10, <1>11, <1>12, <1>13, <1>14, <1>15
     DEF Next, Command, Systemd

\* The command line never has a start refused for a limit that it could have reset.  The
\* dashboard does not look first, so for Client = "tui" the property is false.
THEOREM StartCorrect ==
    ASSUME Client = "cli"
    PROVE  Spec => []StartNotRefused
<1>1. Init => LimitInv
  <2> SUFFICES ASSUME Init PROVE LimitInv
    OBVIOUS
  <2>1. JobsInv
    BY TypeInit DEF Init, JobsInv, NoneYet, OwnJobs, NoJob
  <2>2. Limits /\ StartNotRefused
    BY DEF Init, Limits, StartNotRefused, Unsent
  <2> QED
    BY <2>1, <2>2 DEF LimitInv
<1>2. LimitInv /\ [Next]_vars => LimitInv'
  BY TypeStep, JobsStep, LimitStep DEF LimitInv, JobsInv
<1>3. LimitInv => StartNotRefused
  BY DEF LimitInv
<1> QED
  BY <1>1, <1>2, <1>3, PTL DEF Spec
==============================================================================
