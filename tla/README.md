# A verification project for moneroid

moneroid (`src/`, Go) watches and controls two systemd services on one host: P2Pool
(`moneroid-p2pool.service`) and the miner XMRig (`moneroid-xmrig.service`). It has
command-line verbs (`status`, `health`, `start`, `stop`, `restart`, `logs`, `doctor`,
`node list`, `node select`, `payouts`) and a terminal dashboard. It keeps no database and
no daemon: what it says is computed from systemd, the miner's HTTP API, files that P2Pool
writes, and two clocks, read at slightly different moments. That is where it is hard to
get right, and what this project is about.

The modules here are translated from the code of `src/`. TLC checks them on small
instances, TLAPS proves theorems about some of them for all values of the constants.
`PROJECT.json` lists the components, runs, mutants, findings, hazards and theorems, and
maps every definition to the lines it stands for.

Contents: [inventory](#inventory), [modules](#modules-and-how-they-correspond-to-the-code),
[runs](#runs-what-each-checks-and-shows), [fairness](#fairness),
[proofs](#proofs), [disagreements](#where-the-code-and-its-documents-disagree),
[not modelled](#not-modelled-and-why), [plan](#plan).

## Inventory

| component | state it keeps | operations | talks to |
|---|---|---|---|
| dashboard, `internal/tui` | menu, guards (`collecting`, `paying`, `busy`), current and previous snapshot, chart, last InvocationID, payout report | one handler per message and key of `Update` | collector, systemctl, journalctl, as commands in goroutines whose results come back as messages |
| collector, `internal/status/collect.go` | none between two calls | `Collect`: three concurrent reads, both clocks, session checks, `Evaluate` | systemd adapter, XMRig client, Data API reader |
| health rules, `internal/status/health.go` | none | `Evaluate`, `runtimeLevel` | called by the collector |
| Data API reader, `internal/p2pool` | none | `Read` (one retry after 50 ms) | files that P2Pool rewrites in place |
| XMRig client, `internal/xmrig` | none | `Fetch`, `Parse` | `GET /2/summary` |
| systemd adapter, `internal/systemd` | none | `Show`, `Control`, `ControlError`, `Enablement` | systemctl |
| control commands, `cmd/moneroid/control.go` | none; systemd keeps units and jobs | `cmdControl`, `cmdLogs` | systemctl, journalctl, Ctrl-C |
| doctor, `internal/doctor` | none | 30 checks over a snapshot and the host | collector, systemd, files, network |
| node selection, `cmd/moneroid/node.go` | the params file | `nodeList`, `nodeSelect` | probe, file system |
| params file, `internal/node` | none | `ReadParams`, `Rewrite`, `Diff`, `WriteAtomic` | file system |
| node probe, `internal/node` | none | `ProbeAll`, `Probe`, dialers, ranking | network, SOCKS5 |
| payouts, `internal/payouts` | none | parse and add up journal lines | journalctl |
| configuration, JSON, text, entry point | none | read and validate, convert, print | |
| installer, units, polkit rule | | configuration of other programs | systemd |

What is hard, and what makes each part correct:

- **Dashboard.** Results of goroutines arrive in any order between keys and timers. Guards
  must be taken down again, menus must not lead to an operation that is dropped, a stop
  must be confirmed, the chart and the warnings must not join two sessions of the miner,
  and the screen must come to show the state after an operation.
- **Collector.** systemd, the API and the files are seen at three moments, the read of a
  file is itself two moments, a process may end in between, a file may survive its writer,
  the wall clock may be stepped. A source that is called current must be of the running
  process, and fresh; the running process should not be accused of being another one.
- **Health rules and doctor.** Faults and missing values come in combinations; the order
  of the rules decides. `ok` must be earned, a known violation must never hide behind
  something unknown, and the two sets of rules over the same data must agree.
- **Control commands.** systemctl, its jobs, another client, the 90 s deadline, Ctrl-C
  and the start limit race. The exit code must not promise more than happened, and the
  command must end.
- **Node selection.** A read, a rewrite and a rename without a lock, beside editors, other
  runs, failing calls, kills and losses of power. P2Pool must always find a whole file
  that it may read, and that points at a chosen node; the other lines must stay.
- **Node probe.** Candidates with several addresses that fail at different steps, probed in
  parallel, partly through a proxy. The best one must come out on top whatever the order
  of the answers, and be probed on the path that P2Pool takes.
- **Readers of other programs' output.** A file that is rewritten during the read, a journal
  longer than the buffer, a reply of a proxy of variable length, JSON with a field of the
  wrong type. What is accepted must be complete, and a bad piece must not pass for an
  absent one.

`PROJECT.json` lists the single hazards with their lines and the properties that cover
them.

## Modules and how they correspond to the code

    Dashboard <- MCDashboard            Health <- HealthCheck <- Doctor <- MCHealth
        |  ^-- DashboardProofs            ^                       ^-- HealthProofs
        '--> Refresher                    '-- Collector <- MCCollector
                                                  ^-- CollectorProofs
    NodeSelect <- MCNodeSelect
        |  ^-- NodeSelectProofs         Control <- MCControl
        '--> ParamsRegister               ^-- ControlProofs

    NodeProbe <- MCNodeProbe
    NodeProbe, Socks5, DataApiRead, Journal, ParamsFile, Fields <- MCInputs
    NodeProbe, Socks5, Fields, Recursion <- AnswerProofs
    DataApiRead, Journal, ParamsFile, Recursion <- ReaderProofs

(`A <- B`: B EXTENDS A; `A --> B`: A implements B, which it INSTANCEs.) The MC modules hold nothing but bounds. An operator named after
another with a suffix (`MayCollectUnguarded` before `MayCollect`) is a slip that the code
could have had; `PROJECT.json` uses it as a mutant that a property must notice.

**Dashboard** (`internal/tui/tui.go`, the warning of `view.go`). Bubble Tea calls `Update`
with one message at a time and runs each returned command in a goroutine, so each handler
is one atomic action, and the commands in flight are state: `inflight` (collections),
`fetches` (payout greps), `op` (the control operation), `viewer` (journal views). A
collection reads systemd (`ReadUnits`) and the API (`ReadMiner`) in two steps with the
miner's unit moving between them. `Init` has a value receiver: the commands it returns run,
the flag `paying` it sets is lost with the copy, and `collecting` is not set. Keys are a
constant, so that a run can follow one part of the menus. *Abstracted:* a snapshot is what
it says of the miner (InvocationID, session that answered, rejected shares, whether the
source came out current). `Confirmations` says which answers may come out current without
repeating the comparison of uptimes: any answer may be turned down; one of another session
than the one systemd saw active passes only if the restart fell between the two reads while
the earlier process was too young for the tolerance of 5 s to tell (`brief`). How young that
is, is the Collector's subject. The counter of rejected shares may grow whenever it is read;
the ten-minute span of the chart is a free choice of how many old points go; the payout
report is left out; `r` and a tick that the guard ignores are stuttering steps. `shown` and
`touched` are history variables, and so are the fields of a point but its value.

**Refresher** is what DATA-01 and the guards of the dashboard promise: a refresher that
starts a flight only while its guard is down, whose every delivery takes the guard down,
and that may have had one early flight outside the guard. `Collecting` and `Paying` map
the collections and the payout fetches to it; `SingleFlight` says that Dashboard implements
both at once. The early flight is what the code has and DATA-01 does not
(see [below](#where-the-code-and-its-documents-disagree)).

**Health**, **HealthCheck**, **Doctor** (`internal/status/health.go`,
`internal/doctor/doctor.go`). Pure operators over a snapshot record. `Level` follows the
switch of `Evaluate` in its order, `Absorb` is the pair of closures `degrade` and
`unknown`. HealthCheck makes every snapshot of a bounded set reachable by changing one
unit, source or value at a time (values only while both units run); Doctor adds the checks that judge the same fields. Of
the three event files (stratum, network, pool) a snapshot keeps what may be wrong with any
of them, `events`: a future modification time raises CLOCK_UNCERTAIN as that of `local/p2p`
does, an unreadable file has DATA_API_EVENT_FILES warn, and neither touches the level. The
checks CLOCK, DATA_API_EVENT_FILES and UNIT_MASKED are therefore `Aside` when level and
doctor are compared. *Abstracted:* messages, severities, the informational issue
UNIT_DISABLED, and doctor's checks of enablement, ordering, dependencies, runtime directory,
huge pages, token and journal; that of the node is in NodeProbe.

**Collector** (`collect.go`, `clock_linux.go`, `p2pool.go`, `xmrig.go`, EXTENDS Health).
`Collect` is split at every point where something else can happen: `Begin`, one read each
of systemd and the API, `OpenFile` (open and fstat) and `ReadContent`, and `Finish`, which
is everything after `wg.Wait` in one step, because nothing in it reads the outside except
the two clocks. The world moves between these steps: `Tick`, `ClockStep`, `Start`, `Stop`,
`Gone` (a crash or the end of a stop, which removes a runtime directory), `WriteFile`. A
tick is 1/`Grain` second; uptimes are truncated to whole seconds as the processes report
them. `linked` stands for the runtime-directory relation between unit and files that
`p2poolSession` requires. `Silent` names the sources that may carry no uptime: such an
answer of the API is never compared (SOURCE_SESSION_UNKNOWN for an active unit), and such a
file confirms the unit without a comparison if the directory is `linked`. *Abstracted:*
`local/p2p` is the one file whose freshness and session decide `ok`; the event files are
left out, and a failed read includes the retry after 50 ms; what answers is connected and
mines, so that `ok` depends on sessions and ages alone (what becomes of missing fields is in
Fields, and of values out of range in Health); how processes measure uptime across a suspend
is not modelled. `stepped` is a history variable;
the wall clock is stepped at most once.

**Control** (`control.go`, `control` of `tui.go`, `Control` and `ControlError` of
`systemd.go`). `FirstShow`, `ResetFailed`, `Submit`, `JobsEnd`/`JobsKilled`, `Classify` and
`Verify` are the steps of `cmdControl` between which something else runs; `Interrupt` and
`Expire` are the two contexts; `Client` says whether the CLI or the dashboard runs.
`Submit` hands over the verb, of which polkit or systemd may refuse any of the units;
`JobsBroken` is a systemctl that ends by itself while jobs are queued, because it lost its
bus or was sent a signal, as by a Ctrl-C of the terminal that reaches it before
`NotifyContext` has cancelled: the code then takes the default branch. Units, jobs and the start limit are external, as the code
and the shipped units use them: a job replaces one of another verb, a restart is a stop
and then a start, a unit at its limit refuses to start. `before`, `excused` and `broken` are
history variables.

**NodeSelect** (`nodeSelect` of `cmd/moneroid/node.go`, `WriteAtomic`). Each system call is
a step, several runs go on at once, any call may fail (the deferred removal runs), a run
may be killed (it does not), power may be lost. The content is the node, a version of all
other bytes, and whether anything is missing. The file system is external: rename is
atomic, a rename not flushed yet may be undone, unsynced data of a renamed file may be
lost. The deferred removal, whose error the code ignores, succeeds.

**ParamsRegister** is what P2Pool and the operator may rely on: a register that holds a
node and everything else, readable or not; a run reads it at one moment, holds the result,
and later replaces the register by it, or does not; an editor may replace it, and a loss of
power may bring back what it held before. NodeSelect implements it (`ImplementsRegister`)
under a mapping that shows P2Pool's view of the file (`Found`) and what each run is about
to write (`Held`) and hides temporary files, ownership, syncing and the steps between.

**ParamsFile** (`ReadParams`, `splitKV`, `Rewrite`, `Diff`). The algorithms over every file
of up to `MaxLines` lines; a line is its key, its value and whether it is spelled as
`Rewrite` would. It justifies NodeSelect's view of a content as node and rest.

**NodeProbe** (`resolve`, `Probe`, `probeAddr`, `ProbeAll` and `Params.Dialer` of
`internal/node`, `probeList` and the choice of `nodeSelect`, `nodeCheck` of doctor). The
goroutines of `ProbeAll` share nothing, so the probe of one address is one step, with any
of the results that its three calls can add up to; candidates and addresses interleave. `Sorted` is what
`sort.SliceStable` promises for the order `Before`, which it can: `Before` never ranks a
result without a latency by it.
`tried` keeps every result that was seen, `report` what `Probe` returns. *Abstracted:*
ports, error texts, `nodes.txt`.

**Socks5** (`SOCKS5Dialer`). One step per message; any step may fail. `taken` counts the bytes
of the reply that were read. The proxy sends what RFC 1928 allows; an
address type beyond its three, of which the code takes the address to be empty, is left out.

**DataApiRead** (`Read`, `readOnce`). Open, fstat and two halves of the read on one side,
truncation and two halves of the write on the other, so that either can come between any
two of the other. A piece is the number of the rewrite it is from; two halves of different
rewrites may or may not decode. P2Pool may be killed half-way. A rewrite is assumed to
take less than the 50 ms that the retry waits. Collector has one attempt of this among the
other reads, and `local/p2p` as the one file whose age decides.

**Journal** (`ExecRunner`, `limitedWriter`, `payouts.Fetch`, `Parse`, `FormatXMR`). A line is a
payout, a block without one or, since what `-g` looks for is less than the two regular
expressions ask, of a form that `Parse` skips (`Unknown`); the limit of 1 MiB is a number of
lines, and 2^64 and the atomic units of one XMR are small numbers, so that sums wrap.
`journalctl` runs with `-q`: a refused journal may end it with a message, or with the code 1
and without one, as a search that found nothing does (`hidden`, a history variable). Of a
journal that may be read in part, `matching` is that part. os/exec is external as its
documentation has it: a failed copy closes the pipe, and an error of the copy is returned
if the child itself ended well.

**Fields** (`jsonx`, `xmrig.Parse`, the rule of `config` on `expected_id`).
JSON values are records with their kind. `Reads` has one line per field of `Parse`; `Walk`
and `Element` follow the loops of `walk` and `Index`, and `WrongIsReported` compares them
with a definition that does not: `Place`, where each field belongs, and `Deepest`, how far
that path can be followed. A body starts as that of a working miner; each answer changes one
field, object, array or element into anything.

**MCInputs** runs the last six modules, one at a time: they share no state.

## Runs: what each checks and shows

Passing runs (two workers, a small machine):

| run | shows | states, time | bounds |
|---|---|---|---|
| DashboardKeys | `NoOperationDropped`, `StopIsConfirmed`: every path through the menus while timers and messages come in; what the unguarded commands of `Init` can do; `SingleFlight`: the refinement of Refresher | 470 k, 20 s | all keys but those of the journal views; chart of 2 and no restarts, since menus do not read snapshots |
| DashboardChart | `TypeOK`, `ProvenPointsOfOneSession` | 820 k, 30 s | 2 sessions, so that a gap and a point may be appended at once; 2 points (the smallest joint, with trimming), both reads may fail, no keys |
| DashboardLive | `GuardsOwned`, and under fairness `OperationEnds`, `LastOperationShown`, `ExclusiveOnceDrained` | 17 k, 9 s | one path of keys to an operation and one to a journal view, both repeated without end; one view at a time |
| HealthRules | `OkIsEarned`, `DegradedDominates`, `DegradedIsExplained`, `DoctorAgrees`, `DegradedIsDiagnosed` | 680 k, 1 min 10 s | all states of units (of the three load states that mean "cannot be loaded" one, since no rule tells them apart) and sources; every mix of faults of the event files; null, zero and positive counts; both sides of both limits |
| CollectorMiner | `MinerMatchesUnit`, `NoFalseMinerAlarm` | 6.4 M, 1 min | 2 ticks a second, so that truncation matters; restarts of the miner, a foreign miner, answers without an uptime, 6 ticks |
| CollectorFile | `ConfirmedFileIsLive`, `FreshIsFresh`, `ConfirmedHasAge`, `OkIsHonest` | 5.8 M, 1 min 20 s | restarts of P2Pool, both kinds of directory, files without an uptime, one step of the wall clock beyond each limit; 4 ticks: the file of a process of tick 1 and the start of one at tick 3 are told apart at tick 4, and a file of tick 1 is stale then |
| ControlCommand | `RestartIsReal`, `LeftJobsAreTold`, `StartNotRefused`, and under fairness `Exits` | 2.6 M, 2 min | two units, one foreign command, one crash, every failing call, a systemctl that ends before its jobs |
| NodeSelectWrite | `FileIsWhole`, `NoLitter`, `NodeWasChosen`; `ImplementsRegister`: the refinement of ParamsRegister | 185 k, 14 s | two real runs and a dry one, three nodes, an edit, every failure |
| Inputs, nodes | `ReportedByBest`, `LatencyThere`, `BestIsSelected` | 2.6 M | a name with up to two addresses in either order and two addresses, one of them private; two latencies, so that there are ties; a height below and one above the limit for headers |
| Inputs, params | `SwitchIsComplete`, `OthersKept`, `SkipsOnlyNothing` | 170 k | 3 lines: a key twice and a line between, before or after them |
| Inputs, file | `OneRewriteSurvived`, `NotOlderThanStamp` | 2 k | 4 rewrites: two for each attempt |
| Inputs, journal | `ReportIsComplete` | 15 k | 4 lines against a limit of 2, two amounts whose sums wrap, a block without a payout, an unknown line, a hidden refusal |
| Inputs, proxy | `HandedOverClean` | 85 | every type of address; empty, short and longest names |
| Inputs, fields | `WrongIsReported`, `OnlyOwnMiner` | 30 k | any two fields changed one after the other |

The six rows Inputs are one run (2.8 M states, 2 min).

Times and tolerances are scaled to one or two ticks. The code compares them with each other
only by sums and order, and the bounds let every sum fall on either side of its limit.
`Collect` keeps nothing between two calls, so Collector lets the world rest while a
finished snapshot is looked at: what would happen then happens before the next first read.
In CollectorFile the miner does not restart and in CollectorMiner P2Pool does not: the two
halves of a collection share no state but the clocks, and `Level` needs both, so
`OkIsHonest` follows for the miner's half from `MinerMatchesUnit`.

Deadlock is checked except in Control, NodeSelect and MCInputs, which end: a command
exits, the runs finish and the edits are used up, an input has been read. Every
property has a mutant in `PROJECT.json`, a plausible slip in the code under which the
same run violates it.

The three runs that expect a violation (DashboardWarning, ControlDashboard,
NodeProxy) are described [below](#where-the-code-and-its-documents-disagree).

## Fairness

*Dashboard.* Weak fairness of `Tick`, of the steps of a collection, of the delivery of
snapshots, payouts and operation results, and of the quit timer. The code justifies it: a
tick re-arms its timer in its own handler; each command has a deadline (systemctl,
journalctl and HTTP run under contexts) or reads a local file; Bubble Tea delivers the
message a command returns. Nothing is assumed of the user, of the unit or of a journal
view, which holds the event loop (`tea.ExecProcess`) as long as the user wants; the
liveness properties exempt it. `ExclusiveOnceDrained` needs no fairness.

*Control.* Weak fairness of the command's own steps and of the timer, none of systemd: a
job may stay queued for ever. `JobsBroken` is not fair either: `Exits` does not need
systemctl to fail.

## Proofs

`tlapm` leaves no obligation of Recursion and of the seven modules `*Proofs.tla` unproved.
Every safety property of the passing runs is a theorem. All rest on the assumptions on the
constants that TLC evaluates in the runs, and nothing else.

**DashboardProofs**, for any capacity of the chart of at least 2, any set of keys, any
number of sessions and views, from `ConstantsAssumption` alone:

- `TypeCorrect`: `TypeOK`. The only hard case is `SnapshotMsg`: the chart stays within its
  capacity because a trim keeps at most `HistoryLen` points of what `record` appended.
- `GuardsCorrect` (`GuardsOwned`), `OverlapBounded` (`AtMostTwo`). Neither is inductive by
  itself: that a delivery which takes the guard down leaves at most one collection needs
  the bound, and the bound after a refresh needs the guard. Their conjunction `GuardsInv`
  is inductive.
- `DrainedExclusive` (`ExclusiveOnceDrained`): a second invariant, `Exclusive` (the guard is
  up exactly when a collection is in flight), holds from the first idle moment on.
- `MenuCorrect` (`NoOperationDropped`): `MenuInv` adds that the menu before, that of the
  targets, is open for control operations only while none runs.
- `StopConfirmed` (`StopIsConfirmed`): from the part of `MenuInv` that says that a
  selection off Cancel was moved there by the user.
- `RefreshersImplemented` (`SingleFlight`): every step of Dashboard is a start, a delivery
  or a stutter of either refresher. That a delivery leaves a count one smaller is a fact
  about `Without`; that no start happens beside a guard that is up is the guard of
  `Refresh` and `FetchPayouts`, which only `Init` evades.

- `ChartCorrect` (`ProvenPointsOfOneSession`): snapshots arrive in any order, so the chart
  says nothing of the present unit. `ChartInv` relates three things instead: every collection
  in flight that saw the unit active carries the InvocationID it saw, `lastInv` is the
  process of the last proven point, and neighbours in the chart are of one InvocationID, and of
  one process unless the restart was `brief`; trimming and `record` keep all three.

**HealthProofs**, for all limits, heights, ages and counts: `OkCorrect` and
`DegradedCorrect` (`OkIsEarned`, `DegradedDominates`). The level is split into what the API
contributes (`XMRigHalf`) and what the file contributes (`P2PHalf`), each with a lemma that
says when it is ok and when it is degraded; `Absorb` then combines them.
`DegradedExplained` (`DegradedIsExplained`) goes the other way, from the level to its causes
(`DegradedCauses`). `DoctorCorrect` and `DegradedDiagnosed` (`DoctorAgrees`,
`DegradedIsDiagnosed`) compare the two sets of rules: `Judged` lists what each check of the
doctor complains about, `QuietIsRequired` and `RequiredIsQuiet` are the two directions
between a doctor without complaints and what `ok` requires. Both hold whatever is wrong with
the event files, since nothing that is `Aside` enters either side.

**CollectorProofs**, for any grain, tolerances, limits and timeout of the reads, any number of
restarts and any interleaving: `MinerCorrect`, `NoAlarmCorrect`, `LiveCorrect`,
`FreshCorrect`, `AgeCorrect`, `HonestCorrect` (`MinerMatchesUnit`, `NoFalseMinerAlarm`,
`ConfirmedFileIsLive`, `FreshIsFresh`, `ConfirmedHasAge`, `OkIsHonest`). None is inductive: a
snapshot is judged by what processes and files were at moments that have passed. `ReadInv`
dates each read (`UnitsReadInv`, `MinerReadInv`, `FileReadInv`: who wrote what it found, when,
and whether that process could still be alive) beside what the world allows (`ClockInv`,
`StartInv`, `FileInv`); `SnapInv` says that the snapshot is still what `Finish` computed from
the reads. A file without an uptime has only what the reads themselves show of its writer:
alive when it was opened, hence of no process before the reported one unless that one started
during the collection. What is left is arithmetic on ages that are truncated to seconds (`WholeLemma`,
`UptimeLemma`, `FileAge`).

**ControlProofs**, for any set of units, any number of crashes and foreign commands, and any
failing calls: `RestartCorrect`, `LeftJobsCorrect` (`RestartIsReal`, `LeftJobsAreTold`)
from `ResultInv`, and `StartCorrect` (`StartNotRefused`, for the command line; for the
dashboard TLC refutes it) from `LimitInv`. `JobsInv` says where a job of the command can be and
that no outcome is known before it ends; a job left behind without a timeout or an interrupt
means `broken`. `Restarts` follows a restart through its two halves,
in the second of which the unit is stopped, so that an end of the job means a process more;
`Limits` says that every start limit of a selected unit is either still to be reset or
excused by what came after the look.

**NodeSelectProofs**, for any number of runs, nodes and edits: `FileCorrect`,
`NoLitterLeft`, `NodesChosen` (`FileIsWhole`, `NoLitter`, `NodeWasChosen`). That the params
file is whole says nothing of the next rename; `IInv` adds what a run has established about
its temporary file at each step of `WriteAtomic`, that the data is synced before the
rename, and that the file a loss of power falls back to is as good. `ChosenInv` adds that a
run beyond the check for dry runs carries the node it probed.

`RegisterImplemented` (`ImplementsRegister`) is the refinement of ParamsRegister for any number
of runs: `PreparedInv` adds to `IInv` that what a run writes, syncs and renames is what it
holds, with the owner and mode of the file it replaces; a rename is then a replacement, a
loss of power falls back to a file that was whole, and every other step stutters.

**AnswerProofs**, for any candidates, answers, addresses, latencies and heights:
`BestReported`, `LatencyIsThere` (`ReportedByBest`, `LatencyThere`). `Probe` keeps one result of those it has seen and no count; `KeepBest`
says that the kept one is the first of the best so far, which an address more preserves,
and `ProbeInv` that no address is probed before the dialer is chosen, nor twice.

`BestSelected` (`BestIsSelected`), for any answers of DNS: `SelectInv` says what resolution
returned (`FamiliesInOrder`: the loop of `resolve` leaves the IPv4 addresses first), and that
the choice is that of an order that `Sorted` allows. The first of such an order is usable if
any result is (`FirstUsable`), and no other usable one is before it (`FirstOfSorted`).

The same module proves for Socks5, for names of any length: `SocksHandsOverClean`
(`HandedOverClean`: nothing left open by a dial that fails, either), from an invariant on the
bytes taken at each step.

And for Fields, for any texts, numbers, ranges and values that a field may turn into, and any
number of answers: `FieldsReported`, `OnlyOwnPasses` (`WrongIsReported`, `OnlyOwnMiner`).
`FieldsInv` says that the body stays an object of JSON as deep as `Parse` looks
(`PutKeepsJSON`), and the summary that of the body. `Judges` is what one read says of the
body, proved for each shape of path (`JudgesOne`, `JudgesTwo`, `JudgesElement`,
`JudgesInner`): an error is called missing exactly if the field is not to be `Blamed`, and the
path it names is that of the field or of the array the field would be in. That a note on one
field is never taken for one on another needs that no place begins another and that whatever
begins like an element of an array is one (`PlacesApart`). What ties a passing miner to the
configuration is that `config` refuses the empty id, which is what Parse leaves of one it
cannot read.

**ReaderProofs**, for any number of rewrites of a file of the Data API: `AgeIsHonest`
(`NotOlderThanStamp`) from `FileInv` (the pieces of the file are of its last rewrite or
missing) and `GotInv` (what was read is no older than the time that fstat returned);
`RewriteSurvived` (`OneRewriteSurvived`) from `RetryInv`, which ties the attempt and what was
waited for to the rewrites since the call.

For any journal, limit of the output, size of a word and deadline: `ReportComplete`
(`ReportIsComplete`). `JournalInv` says that a copy that goes on has lost nothing (what is in
the buffer and what is left are the journal) and that one that stopped had a line to copy, so
that the exit which passes as "no match" cannot hide it; `ParseCounts`, by induction over the
lines, that `Parse` counts each of a known form (`KnownStep`) and that its total is their sum
modulo a word. Where a refusal was `hidden` nothing more is claimed than how the child ended.

For every params file and node: `SwitchComplete`, `OthersStay`, `SkipCorrect`
(`SwitchIsComplete`, `OthersKept`, `SkipsOnlyNothing`). `Good` says what the loop of `Rewrite`
leaves of the lines it has read (a node key once, with the new value, exactly if it was
there; the other lines and the value of socks5 unchanged), `GoodAppend` that one more line
keeps it, `RewriteGood` what the appended keys add. That a second rewrite changes nothing is
`CleanStays`, for a file with each key once. That an empty `Diff` means equal files needs that
`Diff` cannot see blank lines at the end, and that a rewrite neither adds nor loses one
(`BlanksCount`, `SameLines`, `DiffTells`).

**Recursion** has the induction these need. The library's theorems of induction take an
operator as a parameter, which no installed prover can instantiate, so here it is a statement
about sets: a set of naturals has a least element (`LeastNat`, from well-founded induction
over a relation, which is a set), hence one that is closed under a step holds every number
(`UpTo`), hence the function that a loop defines exists and is what its rounds make it
(`LoopExists`, `LoopIs`), and what holds of the empty sequence and of one longer by an element
holds of all (`ByAppending`). The loops of the models are therefore recursive functions.

Only model-checked: all liveness (`OperationEnds`, `LastOperationShown`, `Exits`), which is out
of the prover's reach like everything with ENABLED.

## Where the code and its documents disagree

Each of these is a run of one property that states the document, and that TLC violates.

| run | the document | the code |
|---|---|---|
| DashboardWarning | spec H-04: growth between two fresh samples of one session | `view.go:89` compares any two snapshots |
| ControlDashboard | spec CLI-04 and UI-01: the start limit is reset before a start, by the dashboard too | the dashboard only hands the verb over |
| NodeProxy | spec NODE-02: with `socks5` in the params file the probe goes through that proxy | a params file that cannot be read counts as one without a proxy (`node.go:62`) |

Others are behaviours of the models that no run is kept for; each can be read off the
definitions named:

- `Init` (`tui.go:102`) collects without setting `collecting` and sets `paying` on a copy of
  the model: the first tick or key starts a second collection or payout fetch beside the
  first, against spec DATA-01 and the comments at `tui.go:113` and `tui.go:139`. Refresher's
  early flight is this; `AtMostTwo`, which follows from `SingleFlight`, bounds it and `ExclusiveOnceDrained` says when it ends.
- A failed `systemctl show` leaves an empty InvocationID, and the value is still plotted:
  after a restart meanwhile the chart joins two sessions (`Record`, `Plot`; spec DATA-08).
  `ProvenPointsOfOneSession` therefore speaks of points whose unit was seen active.
- A restart between the reads of a collection, of a process so young that its uptime is within
  the 5 s tolerance and the rest of the collection, is not seen: the old process's answer is
  current under the new InvocationID, or the new one's under the old, and the chart gets no gap
  (`Confirmations`, `MinerIsClose`; `collect.go:177`, spec DATA-08).
- A `local/p2p` without an uptime, of the process before, that was opened just before the
  runtime directory went away, confirms the process after: the branch at `collect.go:289`
  compares nothing (`SessionCode`, the second line of `FileIsLive`; spec DATA-08).
- A Ctrl-C that reaches systemctl before the context is cancelled may end in exit code 1
  instead of 130, with the jobs queued and without the words that they "may still complete";
  so does a systemctl that loses its bus (`JobsBroken`, `Code`; `control.go:87`, spec CLI-07).
- `-q` may hide the refusal of the journal, which then passes as no payouts instead of exit
  code 3 (`Search`, `Accepted`; `payouts.go:45`, spec PAY-03). `ReportIsComplete` exempts it.
- doctor's XMRIG_SESSION passes when the ID mismatched and the uptimes were never compared
  (`SessionCheck`; spec DOC-05), and P2P_CONNECTIONS and ZMQ_ACTIVITY pass on a file of
  another process (`P2PoolChecks`; architecture, invariant 4).
- A file rewritten between fstat and read, or a wall clock stepped forward, makes the
  running P2Pool's own file SOURCE_NOT_CURRENT_SESSION (`SessionCode`;
  `docs/troubleshooting.md:17`, spec DATA-08).
- When the control read fails, the exit code 0 stays (`Verify`; spec CLI-05).
- An edit between the read and the rename is undone (`Write`, `Rename` of NodeSelect; spec
  NODE-03).
- `r` is dropped while a collection runs, not kept for its end (`Refresh`; spec UI-02).
- A name that cannot be resolved is probed as it is, by whatever resolves it later, and
  select then writes the name, against the comment at `cmd/moneroid/node.go:138` (`Resolve`).
- The two limits of one ZMTP check are 3 s each, for the dial and for the exchange (spec
  NODE-02: 3 s per step); NODE_RPC of doctor passes a node that serves no headers
  (`NodeRPC`), which P2Pool needs at start.
- The retry of `Read` waits 50 ms whatever is left of the deadline (`Again`; spec DATA-04).
- A journal with more than 1 MiB of matching lines makes `payouts` fail; nothing suggests
  that limitedWriter was meant to do more than cut (`CopyStops`). `ReportIsComplete` holds
  because of it.
- A cut-off body of the API is SOURCE_UNAVAILABLE, a cut-off file SOURCE_INVALID:
  `isInvalidJSON` (`collect.go:411`) looks for the wording of json.Unmarshal, and the Decoder
  of `jsonx` says "unexpected EOF".
- `docs/architecture.md:31` counts 31 checks of the doctor, the code has 30.

## Not modelled, and why

- **The contents of the event files of the Data API**: no rule that `ok` needs reads them,
  except the sidechain height, which Health has, beside what may be wrong with the files. Their fields are read like those of Fields, the heights of
  `peerMaxHeight` from text.
- **The rest of config**: validated field by field, read once, no order to get wrong.
- **The rest of doctor**: single comparisons and I/O.
- **ParseList, cmdLogs, ParseShow**: splitting of lines.
- **Suspend**: whether the uptimes that P2Pool and XMRig report go on while the host sleeps,
  as the monotonic clock does not, is outside the repository.
- **Keys after q**: the 50 ms in which they still work are modelled (`life`), but no document
  says what they may do.
- **Text, colours, window size, entry point**: output.
- **Installer, units, polkit**: configuration of other programs; what they promise is
  assumed by Collector and Control and marked external.

## Plan

In the order of what matters most.

1. *Done:* Dashboard, Health, HealthCheck, Doctor, Collector, Control, NodeSelect,
   ParamsFile, NodeProbe, Socks5, DataApiRead, Journal, Fields; the abstract Refresher and
   ParamsRegister with their refinements; the proofs above.
2. *Proofs to add.* That `SwitchIsComplete` and `OthersKept` of ParamsFile make NodeSelect's
   view of a content (node and rest) exact, as a lemma that names both.
3. *Properties to add.* H-04's "no eternal warning": once shares are no longer rejected the
   warning goes away, in whatever order the snapshots arrive. That one bad field of an answer
   leaves the results of the others alone, which is a relation of two answers;
   `peerMaxHeight` over malformed peers.
