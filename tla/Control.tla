------------------------------- MODULE Control --------------------------------
(***************************************************************************)
(* moneroid start, stop and restart: cmdControl of cmd/moneroid/control.go *)
(* beside systemd, another client of systemd, and Ctrl-C.                  *)
(*                                                                         *)
(* The command looks for units that hit their start limit, resets them,    *)
(* hands one verb to systemctl, which waits for the jobs of all units, and *)
(* reports what it sees afterwards.  systemctl dies with the deadline and  *)
(* with Ctrl-C; the jobs it queued do not.  The dashboard's `control'      *)
(* (internal/tui/tui.go) hands over the verb without what comes before and *)
(* after it: Client says which of the two runs.                            *)
(*                                                                         *)
(* Starts, stops and jobs of systemd are external, as control.go and the   *)
(* shipped units use them (Type=exec, StartLimitBurst).                    *)
(*                                                                         *)
(* An operator named after another with a suffix (CodeUnordered) is a slip *)
(* the code could have had, kept to show that a property notices.          *)
(***************************************************************************)
EXTENDS Naturals, FiniteSets

CONSTANTS
    Units,      \* the two units
    Client,     \* "cli" or "tui"
    Verbs,      \* bound: the verbs the user may ask for
    Faults,     \* what may go wrong: a subset of FaultKinds
    MaxOther,   \* bound: commands of the other client
    MaxCrashes  \* bound: crashes of the processes

\* A systemctl that looks or resets fails; polkit or systemd refuses a unit's job; the
\* systemctl of the verb ends by itself; a process does not start.
FaultKinds == {"show", "reset", "polkit", "job", "call", "exec"}

ASSUME ControlAssumption ==
    /\ IsFiniteSet(Units)
    /\ Client \in {"cli", "tui"}
    /\ Verbs \subseteq {"start", "stop", "restart"}
    /\ Faults \subseteq FaultKinds
    /\ MaxOther \in Nat /\ MaxCrashes \in Nat

VARIABLES
    verb, selected,      \* the arguments
    pc,                  \* show, reset, wait, classify, verify, exited
    cancelled, expired,  \* ctx: Ctrl-C; cctx: the 90 s deadline
    limited,             \* units whose start limit is still to be reset
    err,                 \* of systemctl: none, failed, denied, killed
    result,              \* the exit code
    unit,                \* of systemd: state, start limit hit, number of processes
    job,                 \* of systemd: verb queued for a unit; is it of this command
    outcome,             \* of this command's jobs: none, done, refused, failed, canceled
    others, crashes,     \* counters of the bounds
    before,              \* history: processes of each unit when the verb was handed over
    excused,             \* history: units whose start limit could not be reset in time
    broken               \* history: systemctl ended by itself before its jobs did

cliVars     == <<verb, selected, pc, cancelled, expired, limited, err, result>>
systemdVars == <<unit, job, outcome>>
vars == <<cliVars, systemdVars, others, crashes, before, excused, broken>>

NoJob == [verb |-> "none", mine |-> FALSE]
Codes == {"ok", "check", "denied", "timeout", "interrupt"}  \* 0, 1, 3, 4, 130

TypeOK ==
    /\ verb \in Verbs
    /\ selected \in SUBSET Units
    /\ pc \in {"show", "reset", "wait", "classify", "verify", "exited"}
    /\ cancelled \in BOOLEAN /\ expired \in BOOLEAN
    /\ limited \in SUBSET Units
    /\ err \in {"none", "failed", "denied", "killed"}
    /\ result \in Codes
    /\ unit \in [Units -> [state : {"inactive", "active", "failed"}, limit : BOOLEAN, runs : Nat]]
    /\ job \in [Units -> [verb : {"none", "start", "stop", "restart"}, mine : BOOLEAN]]
    /\ outcome \in [Units -> {"none", "done", "refused", "failed", "canceled"}]
    /\ others \in Nat /\ crashes \in Nat
    /\ before \in [Units -> Nat]
    /\ excused \in SUBSET Units
    /\ broken \in BOOLEAN

Init ==
    /\ verb \in Verbs
    /\ selected \in SUBSET Units \ {{}}
    /\ pc = IF Client = "cli" /\ verb # "stop" THEN "show" ELSE "reset"
    /\ cancelled = FALSE /\ expired = FALSE
    /\ limited = {}
    /\ err = "none"
    /\ result = "ok"
    /\ unit \in [Units -> {[state |-> "inactive", limit |-> FALSE, runs |-> 0],
                           [state |-> "active", limit |-> FALSE, runs |-> 1],
                           [state |-> "failed", limit |-> TRUE, runs |-> 1]}]
    /\ job = [u \in Units |-> NoJob]
    /\ outcome = [u \in Units |-> "none"]
    /\ others = 0 /\ crashes = 0
    /\ before = [u \in Units |-> 0]
    /\ excused = {}
    /\ broken = FALSE

-----------------------------------------------------------------------------
(* systemd *)

\* A job for u: it joins a queued one of the same verb, replaces any other.
Queued(u, v, mine) ==
    [verb |-> v, mine |-> mine \/ (job[u].verb = v /\ job[u].mine)]
Replaces(u, v) == job[u].verb # v /\ job[u].mine

Result(u, r) == IF job[u].mine THEN [outcome EXCEPT ![u] = r] ELSE outcome

StopJob(u) ==
    /\ job[u].verb \in {"stop", "restart"}
    /\ unit' = [unit EXCEPT ![u].state = IF @ = "active" THEN "inactive" ELSE @]
    /\ IF job[u].verb = "stop"
       THEN job' = [job EXCEPT ![u] = NoJob] /\ outcome' = Result(u, "done")
       ELSE job' = [job EXCEPT ![u].verb = "start"] /\ UNCHANGED outcome
    /\ UNCHANGED <<cliVars, others, crashes, before, excused, broken>>

StartJob(u) ==
    /\ job[u].verb = "start"
    /\ job' = [job EXCEPT ![u] = NoJob]
    /\ \/ /\ unit[u].state = "active"
          /\ unit' = unit /\ outcome' = Result(u, "done")
       \/ /\ unit[u].state # "active" /\ unit[u].limit
          /\ unit' = [unit EXCEPT ![u].state = "failed"]
          /\ outcome' = Result(u, "refused")
       \/ /\ unit[u].state # "active" /\ ~unit[u].limit
          /\ unit' = [unit EXCEPT ![u].state = "active", ![u].runs = @ + 1]
          /\ outcome' = Result(u, "done")
       \/ /\ unit[u].state # "active" /\ ~unit[u].limit /\ "exec" \in Faults
          /\ unit' = [unit EXCEPT ![u].state = "failed"]
          /\ outcome' = Result(u, "failed")
    /\ UNCHANGED <<cliVars, others, crashes, before, excused, broken>>

\* A process dies: restarted by Restart=on-failure, or the unit's start limit is hit.
\* A limit hit after the command looked cannot be blamed on it.
Crash(u) ==
    /\ crashes < MaxCrashes
    /\ crashes' = crashes + 1
    /\ unit[u].state = "active"
    /\ \/ /\ unit' = [unit EXCEPT ![u].runs = @ + 1]
          /\ excused' = excused
       \/ /\ unit' = [unit EXCEPT ![u].state = "failed", ![u].limit = TRUE]
          /\ excused' = IF pc = "show" THEN excused ELSE excused \cup {u}
    /\ UNCHANGED <<cliVars, job, outcome, others, before, broken>>

OtherCommand(u, v) ==
    /\ others < MaxOther
    /\ others' = others + 1
    /\ job' = [job EXCEPT ![u] = Queued(u, v, FALSE)]
    /\ outcome' = IF Replaces(u, v) THEN [outcome EXCEPT ![u] = "canceled"] ELSE outcome
    /\ UNCHANGED <<cliVars, unit, crashes, before, excused, broken>>

-----------------------------------------------------------------------------
(* cmdControl *)

Interrupt ==
    /\ pc # "exited"
    /\ ~cancelled
    /\ cancelled' = TRUE
    /\ UNCHANGED <<verb, selected, pc, expired, limited, err, result,
                   systemdVars, others, crashes, before, excused, broken>>

\* The 90 s are over; `cancel' is called when systemctl has returned.
Expire ==
    /\ pc \in {"reset", "wait"}
    /\ ~expired
    /\ expired' = TRUE
    /\ UNCHANGED <<verb, selected, pc, cancelled, limited, err, result,
                   systemdVars, others, crashes, before, excused, broken>>

KilledByUser == cancelled
Killed == cancelled \/ expired

AtLimitForgotten == {}
AtLimit == {u \in selected : unit[u].limit}

\* systemd.Show before the verb; when it fails nothing is reset.
FirstShow ==
    /\ pc = "show"
    /\ pc' = "reset"
    /\ \/ /\ ~cancelled
          /\ limited' = AtLimit /\ excused' = excused
       \/ /\ cancelled \/ "show" \in Faults
          /\ limited' = {} /\ excused' = excused \cup selected
    /\ UNCHANGED <<verb, selected, cancelled, expired, err, result,
                   systemdVars, others, crashes, before, broken>>

\* systemctl reset-failed; its failure is only printed.
ResetFailed(u) ==
    /\ pc = "reset"
    /\ u \in limited
    /\ limited' = limited \ {u}
    /\ \/ /\ ~Killed
          /\ unit' = [unit EXCEPT ![u].limit = FALSE,
                                  ![u].state = IF @ = "failed" THEN "inactive" ELSE @]
          /\ excused' = excused
       \/ /\ Killed \/ "reset" \in Faults
          /\ unit' = unit
          /\ excused' = excused \cup {u}
    /\ UNCHANGED <<verb, selected, pc, cancelled, expired, err, result,
                   job, outcome, others, crashes, before, broken>>

\* systemctl VERB queues a job for every unit for which polkit and systemd let it, and
\* goes on with the others; a denial anywhere in what it printed makes the error one.
MayCall == ~Killed
Refusals == (IF "polkit" \in Faults THEN {"denied"} ELSE {})
                \cup (IF "job" \in Faults THEN {"failed"} ELSE {})

Submit ==
    /\ pc = "reset"
    /\ limited = {}
    /\ MayCall
    /\ \E why \in {"none"} \cup Refusals, refused \in SUBSET selected :
          /\ (why = "none") = (refused = {})
          /\ err' = why
          /\ job' = [u \in Units |-> IF u \in selected \ refused THEN Queued(u, verb, TRUE)
                                                                 ELSE job[u]]
          /\ outcome' = [u \in Units |-> IF u \in refused THEN "failed" ELSE "none"]
    /\ before' = [u \in Units |-> unit[u].runs]
    /\ pc' = "wait"
    /\ UNCHANGED <<verb, selected, cancelled, expired, limited, result,
                   unit, others, crashes, excused, broken>>

\* exec.CommandContext does not start a command whose context is over.
SubmitKilled ==
    /\ pc = "reset"
    /\ limited = {}
    /\ Killed
    /\ err' = "killed"
    /\ pc' = "classify"
    /\ UNCHANGED <<verb, selected, cancelled, expired, limited, result,
                   systemdVars, others, crashes, before, excused, broken>>

FailedJobs == {u \in selected : outcome[u] \in {"refused", "failed", "canceled"}}

ErrorForgotten == err
Error == IF err = "none" /\ FailedJobs # {} THEN "failed" ELSE err

\* systemctl returns when all its jobs are over ...
JobsEnd ==
    /\ pc = "wait"
    /\ \A u \in selected : outcome[u] # "none"
    /\ err' = Error
    /\ pc' = "classify"
    /\ UNCHANGED <<verb, selected, cancelled, expired, limited, result,
                   systemdVars, others, crashes, before, excused, broken>>

\* ... or ends before them, its bus gone or by a signal that is not this command's (a
\* Ctrl-C reaches both, and may reach systemctl first) ...
JobsBroken ==
    /\ pc = "wait"
    /\ "call" \in Faults
    /\ err' = IF err = "none" THEN "failed" ELSE err
    /\ broken' = TRUE
    /\ pc' = "classify"
    /\ UNCHANGED <<verb, selected, cancelled, expired, limited, result,
                   systemdVars, others, crashes, before, excused>>

\* ... or is killed; the jobs go on.
JobsKilled ==
    /\ pc = "wait"
    /\ Killed
    /\ err' = "killed"
    /\ pc' = "classify"
    /\ UNCHANGED <<verb, selected, cancelled, expired, limited, result,
                   systemdVars, others, crashes, before, excused, broken>>

\* The switch on err, ctx and cctx; an operation of the dashboard ends here.
CodeUnordered == IF err = "none" THEN "ok"
                 ELSE IF err = "denied" THEN "denied"
                 ELSE IF cancelled THEN "interrupt"
                 ELSE "check"
Code == IF err = "none" THEN "ok"
        ELSE IF cancelled THEN "interrupt"
        ELSE IF expired THEN "timeout"
        ELSE IF err = "denied" THEN "denied"
        ELSE "check"

Classify ==
    /\ pc = "classify"
    /\ result' = Code
    /\ pc' = IF Client = "cli" THEN "verify" ELSE "exited"
    /\ UNCHANGED <<verb, selected, cancelled, expired, limited, err,
                   systemdVars, others, crashes, before, excused, broken>>

want == IF verb = "stop" THEN "inactive" ELSE "active"

\* CLI-05: the last look, under a context of its own.
Verify ==
    /\ pc = "verify"
    /\ pc' = "exited"
    /\ \/ result' = IF result = "ok" /\ \E u \in selected : unit[u].state # want
                    THEN "check" ELSE result
       \/ "show" \in Faults /\ result' = result
    /\ UNCHANGED <<verb, selected, cancelled, expired, limited, err,
                   systemdVars, others, crashes, before, excused, broken>>

Command == \/ FirstShow \/ \E u \in Units : ResetFailed(u)
           \/ Submit \/ SubmitKilled \/ JobsEnd \/ JobsKilled \/ Classify \/ Verify

Systemd == \E u \in Units :
               \/ StopJob(u) \/ StartJob(u) \/ Crash(u)
               \/ \E v \in {"start", "stop", "restart"} : OtherCommand(u, v)

Next == Command \/ JobsBroken \/ Expire \/ Interrupt \/ Systemd

Spec == Init /\ [][Next]_vars

\* The process runs, and the runtime fires its timer; systemd promises nothing, and
\* nothing has to break.
FairSpec == Spec /\ WF_vars(Command) /\ WF_vars(Expire)

-----------------------------------------------------------------------------
(* Properties. *)

Exited == pc = "exited"

\* cmdControl: `restart' exits 0 only when every selected unit got a new process after
\* the verb was handed over, whatever jobs another client queued meanwhile and whatever
\* crashed; CLI-04, "restart really stops and starts the selected services".
RestartIsReal ==
    Exited /\ verb = "restart" /\ result = "ok" =>
        \A u \in selected : unit[u].runs > before[u]

\* The exit codes (CLI-07): success never leaves a job of this command behind; a timeout
\* and an interrupt may, and say so; a check failure and a denial, which do not say so,
\* may only when systemctl ended by itself before its jobs.
LeftJobsAreTold ==
    Exited /\ (\E u \in Units : job[u].mine) =>
        \/ result \in {"timeout", "interrupt"}
        \/ broken /\ result \in {"check", "denied"}

\* CLI-04: systemd refuses a start for its start limit only when the limit was hit
\* after the command had looked, or looking or resetting failed.
StartNotRefused == \A u \in Units : outcome[u] = "refused" => u \in excused

\* Every exit code is reached within the deadlines, even if systemd never ends a job.
Exits == <>Exited
=============================================================================
