------------------------------ MODULE Dashboard ------------------------------
(***************************************************************************)
(* The event loop of the terminal dashboard, internal/tui/tui.go.          *)
(*                                                                         *)
(* Bubble Tea calls Model.Update with one message at a time and runs every *)
(* returned command in a goroutine of its own; the message a command ends  *)
(* with is delivered whenever its goroutine gets to it.  The commands in   *)
(* flight are therefore part of the state: `inflight' (collections),       *)
(* `fetches' (journal greps for payouts), `op' (a systemctl verb) and      *)
(* `viewer' (journalctl views).  Each handler of Update and of key is one  *)
(* action; a key or a tick that the code ignores is a stuttering step.     *)
(*                                                                         *)
(* A collection reads systemd and the miner's API concurrently, so a       *)
(* restart of the miner may fall between its two reads.                    *)
(*                                                                         *)
(* An operator named after another with a suffix (MayCollectUnguarded) is  *)
(* a slip the code could have had, kept to show that a property notices.   *)
(***************************************************************************)
EXTENDS Naturals, Sequences

CONSTANTS
    Keys,         \* the keys the user presses; "toggle" stands for the four
                  \* keys that move the selection of the confirmation
    HistoryLen,   \* capacity of the chart (1200 in the code)
    MaxSession,   \* bound: process starts of the miner's unit
    MaxRejected,  \* bound: rejected shares in one session of the miner
    MaxViewers,   \* bound: journal views asked for and not yet handled
    PayTimer,     \* the payout timer fires (it may be left out, as a bound)
    Faults        \* the reads that may fail: a subset of {"units", "miner"}

ASSUME ConstantsAssumption ==
    /\ HistoryLen \in Nat \ {0, 1}
    /\ MaxSession \in Nat
    /\ MaxRejected \in Nat
    /\ MaxViewers \in Nat
    /\ PayTimer \in BOOLEAN
    /\ Faults \subseteq {"units", "miner"}

VARIABLES
    menu,        \* mode, forLogs, target, action, confirmOK
    life,        \* running, quitting (the frame is erased), exited
    collecting,  \* the guard of refresh
    inflight,    \* collections whose snapshot is not delivered, oldest first
    snap, prev,  \* the snapshot on screen and the one before it
    history,     \* the points of the hashrate chart
    lastInv,     \* InvocationID of the last snapshot (0 is the empty string)
    busy, op,    \* the guard of launch; the control operation in flight
    paying,      \* the guard of fetchPayouts
    fetches,     \* payout fetches in flight, oldest first
    viewer,      \* journal views: asked for, open, returned
    world,       \* the miner's unit: session, running, rejected shares last read
    shown,       \* history variable: what is on screen was collected after the
                 \* result of the last control operation
    touched      \* history variable: the selection of the dialog was moved

menuVars    == <<menu, touched>>
refreshVars == <<collecting, inflight>>
screenVars  == <<snap, prev, history, lastInv, shown>>
opVars      == <<busy, op>>
payVars     == <<paying, fetches>>
vars == <<menuVars, life, refreshVars, screenVars, opVars, payVars, viewer, world>>

-----------------------------------------------------------------------------
(* The data of a collection and of a snapshot. *)

Modes   == {"dashboard", "target", "action", "confirm", "help", "payouts"}
actions == <<"start", "stop", "restart">>
Cycle   == 0 .. 2   \* the three targets and the three actions, from 0

UnitsRead == [st : {"unread", "failed", "seen"}, inv : Nat, active : BOOLEAN]
MinerRead == [st : {"unread", "down", "answered"}, of : Nat, rejected : Nat]

\* afterOp: it started after the result of the last control operation.
Collection == [units : UnitsRead, miner : MinerRead, afterOp : BOOLEAN]

Fresh == [units |-> [st |-> "unread", inv |-> 0, active |-> FALSE],
          miner |-> [st |-> "unread", of |-> 0, rejected |-> 0],
          afterOp |-> TRUE]

\* What a snapshot says of the miner: the InvocationID systemd reported (0 when
\* the read failed), whether the unit was seen active, the session whose process
\* answered (0 when none did) with its rejected shares, and whether the source
\* came out `ok' with no error code.
Snapshot == [inv : Nat, proven : BOOLEAN, of : Nat, rejected : Nat, current : BOOLEAN]

NoSnapshot == [inv |-> 0, proven |-> FALSE, of |-> 0, rejected |-> 0, current |-> FALSE]

\* A point of the chart, and what its snapshot came from: the InvocationID it was
\* recorded under, the session that answered, whether the unit was seen active, and
\* whether a restart fell between its reads too early for the comparison to tell.
Point == [value : BOOLEAN, inv : Nat, of : Nat, proven : BOOLEAN, brief : BOOLEAN]
Gap   == [value |-> FALSE, inv |-> 0, of |-> 0, proven |-> FALSE, brief |-> FALSE]

NoOp == [verb |-> "none", target |-> 0]
Ops  == [verb : {"start", "stop", "restart"}, target : Cycle]

Viewer == [asked : Nat, open : BOOLEAN, returned : Nat]
World  == [session : Nat, running : BOOLEAN, rejected : Nat]

TypeOK ==
    /\ menu \in [mode : Modes, forLogs : BOOLEAN, target : Cycle,
                 action : Cycle, confirmOK : BOOLEAN]
    /\ life \in {"running", "quitting", "exited"}
    /\ collecting \in BOOLEAN
    /\ inflight \in Seq(Collection)
    /\ snap \in Snapshot
    /\ prev \in Snapshot
    /\ history \in Seq(Point)
    /\ Len(history) <= HistoryLen
    /\ lastInv \in Nat
    /\ busy \in BOOLEAN
    /\ op \in Ops \cup {NoOp}
    /\ paying \in BOOLEAN
    /\ fetches \in Seq({"grep"})
    /\ viewer \in Viewer
    /\ world \in World
    /\ shown \in BOOLEAN
    /\ touched \in BOOLEAN

-----------------------------------------------------------------------------
(* Init has a value receiver: the collection and the payout fetch it issues *)
(* run, but `paying' is set on a copy and `collecting' is not set at all.   *)

Init ==
    /\ menu = [mode |-> "dashboard", forLogs |-> FALSE, target |-> 0,
               action |-> 0, confirmOK |-> FALSE]
    /\ life = "running"
    /\ collecting = FALSE
    /\ inflight = <<Fresh>>
    /\ snap = NoSnapshot
    /\ prev = NoSnapshot
    /\ history = <<>>
    /\ lastInv = 0
    /\ busy = FALSE
    /\ op = NoOp
    /\ paying = FALSE
    /\ fetches = <<"grep">>
    /\ viewer = [asked |-> 0, open |-> FALSE, returned |-> 0]
    /\ world = [session |-> 0, running |-> FALSE, rejected |-> 0]
    /\ shown = TRUE
    /\ touched = FALSE

\* Update is called: the program has not ended, and no journal view holds the
\* terminal (Bubble Tea runs tea.ExecProcess on the event loop itself).
Alive == life # "exited"
Awake == Alive /\ ~viewer.open

-----------------------------------------------------------------------------
(* Collections. *)

MayCollectUnguarded == TRUE
MayCollect == ~collecting

\* refresh: the guard and the command, with `earlier' already in flight.
Refresh(earlier) ==
    IF MayCollect
    THEN /\ collecting' = TRUE
         /\ inflight' = Append(earlier, Fresh)
    ELSE /\ collecting' = collecting
         /\ inflight' = earlier

\* tickMsg, and the key `r' on the dashboard: ignored while collecting.
Tick ==
    /\ Awake
    /\ MayCollect
    /\ Refresh(inflight)
    /\ UNCHANGED <<menuVars, life, screenVars, opVars, payVars, viewer, world>>

KeyRefresh ==
    /\ "r" \in Keys
    /\ menu.mode = "dashboard"
    /\ Tick

\* systemctl show answers, or fails (the whole read fails).
ReadUnits(i) ==
    /\ Alive
    /\ inflight[i].units.st = "unread"
    /\ \E r \in {[st |-> "seen", inv |-> world.session, active |-> world.running]}
                \cup (IF "units" \in Faults
                      THEN {[st |-> "failed", inv |-> 0, active |-> FALSE]} ELSE {}) :
          inflight' = [inflight EXCEPT ![i] = [@ EXCEPT !.units = r]]
    /\ UNCHANGED <<menuVars, life, collecting, screenVars, opVars, payVars, viewer, world>>

\* GET /2/summary is answered by the process that runs at that moment; its counter
\* of rejected shares may have grown since it was last read.
MinerAnswers(i) ==
    /\ Alive
    /\ inflight[i].miner.st = "unread"
    /\ world.running
    /\ \E n \in world.rejected .. MaxRejected :
          /\ world' = [world EXCEPT !.rejected = n]
          /\ inflight' = [inflight EXCEPT ![i] =
                [@ EXCEPT !.miner = [st |-> "answered", of |-> world.session, rejected |-> n]]]
    /\ UNCHANGED <<menuVars, life, collecting, screenVars, opVars, payVars, viewer>>

\* It is not answered: no process runs, or the request fails.
MinerFails(i) ==
    /\ Alive
    /\ inflight[i].miner.st = "unread"
    /\ "miner" \in Faults \/ ~world.running
    /\ inflight' = [inflight EXCEPT ![i] =
          [@ EXCEPT !.miner = [st |-> "down", of |-> 0, rejected |-> 0]]]
    /\ UNCHANGED <<menuVars, life, collecting, screenVars, opVars, payVars, viewer, world>>

ReadMiner(i) == MinerAnswers(i) \/ MinerFails(i)

\* Whether an answer passes as the unit's.  The collector compares the API's uptime
\* with the unit's, to SessionTolerance, and only when the unit was seen active.  It
\* may turn down any answer: a foreign id, no uptime, a long wait between its reads.
\* It cannot tell two processes apart when a restart fell between the reads and the
\* earlier had been up, when it was read, for no longer than the tolerance and the
\* rest of the collection: `brief' says that it was so.
Parted(c) == c.units.active /\ c.miner.st = "answered" /\ c.miner.of # c.units.inv

Confirmations(c, brief) == IF Parted(c) /\ ~brief THEN {FALSE} ELSE BOOLEAN

\* The snapshot: the source is `ok' with no error code if the answer passed.
Result(c, confirmed) ==
    [inv |-> c.units.inv, proven |-> c.units.active,
     of |-> c.miner.of, rejected |-> c.miner.rejected,
     current |-> c.miner.st = "answered" /\ confirmed]

-----------------------------------------------------------------------------
(* record: the chart. *)

NewSessionIgnored(s) == FALSE
NewSession(s) == lastInv # 0 /\ s.inv # lastInv

Plot(s, brief) ==
    IF s.current
    THEN [value |-> TRUE, inv |-> s.inv, of |-> s.of, proven |-> s.proven, brief |-> brief]
    ELSE Gap

Recorded(s, brief) ==
    (IF NewSession(s) THEN Append(history, Gap) ELSE history) \o <<Plot(s, brief)>>

\* The points that a trimmed chart may start with: those over the capacity go, and
\* points older than ten minutes may go too, never one of this snapshot's time.
FirstKeptOver(h) == {k \in 1 .. Len(h) : Len(h) - k <= HistoryLen /\ k <= Len(history) + 1}
FirstKept(h) == {k \in 1 .. Len(h) : Len(h) - k < HistoryLen /\ k <= Len(history) + 1}

Record(s, brief) ==
    /\ lastInv' = s.inv
    /\ LET h == Recorded(s, brief)
       IN  \E k \in FirstKept(h) : history' = SubSeq(h, k, Len(h))

\* The collections left when the i-th is delivered.
Without(i) == [k \in 1 .. Len(inflight) - 1 |-> IF k < i THEN inflight[k] ELSE inflight[k + 1]]

CollectingAfterForgotten == collecting
CollectingAfter == FALSE

\* snapshotMsg
SnapshotMsg(i) ==
    /\ Awake
    /\ inflight[i].units.st # "unread"
    /\ inflight[i].miner.st # "unread"
    /\ collecting' = CollectingAfter
    /\ inflight' = Without(i)
    /\ prev' = snap
    /\ \E brief \in {FALSE, Parted(inflight[i])} : \E confirmed \in Confirmations(inflight[i], brief) :
          /\ snap' = Result(inflight[i], confirmed)
          /\ Record(Result(inflight[i], confirmed), brief)
    /\ shown' = inflight[i].afterOp
    /\ UNCHANGED <<menuVars, life, opVars, payVars, viewer, world>>

\* view.go: the warning about rejected shares.
RejectedWarning == prev.of # 0 /\ snap.of # 0 /\ snap.rejected > prev.rejected

-----------------------------------------------------------------------------
(* Payouts. *)

MayFetch == ~paying

FetchPayouts ==
    IF MayFetch
    THEN /\ paying' = TRUE
         /\ fetches' = Append(fetches, "grep")
    ELSE UNCHANGED <<paying, fetches>>

PayTick ==
    /\ Awake
    /\ PayTimer
    /\ FetchPayouts
    /\ UNCHANGED <<menuVars, life, refreshVars, screenVars, opVars, viewer, world>>

PayingAfter == FALSE

\* payoutsMsg, with a report or an error.
PayoutsMsg ==
    /\ Awake
    /\ fetches # <<>>
    /\ fetches' = Tail(fetches)
    /\ paying' = PayingAfter
    /\ UNCHANGED <<menuVars, life, refreshVars, screenVars, opVars, viewer, world>>

-----------------------------------------------------------------------------
(* Control operations and journal views. *)

BusyAfterForgotten == busy
BusyAfter == FALSE

Idle == ~busy

\* launch, called with the chosen target and action.
Launch ==
    /\ menu' = [menu EXCEPT !.mode = "dashboard"]
    /\ touched' = FALSE
    /\ IF Idle
       THEN /\ busy' = TRUE
            /\ op' = [verb |-> actions[menu.action + 1], target |-> menu.target]
       ELSE UNCHANGED opVars
    /\ UNCHANGED <<life, refreshVars, screenVars, payVars, viewer, world>>

\* opMsg: systemctl ended, failed or hit the 90 s deadline; then refresh.
OpMsg ==
    /\ Awake
    /\ op # NoOp
    /\ busy' = BusyAfter
    /\ op' = NoOp
    /\ Refresh([k \in 1 .. Len(inflight) |-> [inflight[k] EXCEPT !.afterOp = FALSE]])
    /\ shown' = FALSE
    /\ UNCHANGED <<menuVars, life, snap, prev, history, lastInv, payVars, viewer, world>>

\* tea.ExecProcess takes the terminal; journalctl ends; logsMsg refreshes.
ViewerOpens ==
    /\ Awake
    /\ viewer.asked > 0
    /\ viewer' = [viewer EXCEPT !.asked = @ - 1, !.open = TRUE]
    /\ UNCHANGED <<menuVars, life, refreshVars, screenVars, opVars, payVars, world>>

ViewerCloses ==
    /\ Alive
    /\ viewer.open
    /\ viewer' = [viewer EXCEPT !.open = FALSE, !.returned = @ + 1]
    /\ UNCHANGED <<menuVars, life, refreshVars, screenVars, opVars, payVars, world>>

LogsMsg ==
    /\ Awake
    /\ viewer.returned > 0
    /\ viewer' = [viewer EXCEPT !.returned = @ - 1]
    /\ Refresh(inflight)
    /\ UNCHANGED <<menuVars, life, screenVars, opVars, payVars, world>>

-----------------------------------------------------------------------------
(* Keys. *)

\* A key that changes the menu only.
Key(k, mode) == Awake /\ k \in Keys /\ menu.mode = mode

MenuOnly(new, moved) ==
    /\ menu' = new
    /\ touched' = moved
    /\ UNCHANGED <<life, refreshVars, screenVars, opVars, payVars, viewer, world>>

ToDashboard == MenuOnly([menu EXCEPT !.mode = "dashboard"], FALSE)

\* q on the dashboard and ctrl+c anywhere: nothing but the end of the program, one
\* 50 ms timer later.  Until then Update still handles every message.
KeyQuit ==
    /\ Awake
    /\ \/ "ctrl+c" \in Keys
       \/ "q" \in Keys /\ menu.mode = "dashboard"
    /\ life' = "quitting"
    /\ UNCHANGED <<menuVars, refreshVars, screenVars, opVars, payVars, viewer, world>>

QuitMsg ==
    /\ Awake
    /\ life = "quitting"
    /\ life' = "exited"
    /\ UNCHANGED <<menuVars, refreshVars, screenVars, opVars, payVars, viewer, world>>

MayControlAlways == TRUE
MayControl == ~busy

KeyServices ==
    /\ Key("s", "dashboard")
    /\ MayControl
    /\ MenuOnly([menu EXCEPT !.mode = "target", !.forLogs = FALSE, !.target = 0], touched)

KeyLogs ==
    /\ Key("l", "dashboard")
    /\ MenuOnly([menu EXCEPT !.mode = "target", !.forLogs = TRUE, !.target = 0], touched)

KeyHelp ==
    /\ Key("?", "dashboard")
    /\ MenuOnly([menu EXCEPT !.mode = "help"], touched)

KeyPayouts ==
    /\ Key("p", "dashboard")
    /\ menu' = [menu EXCEPT !.mode = "payouts"]
    /\ FetchPayouts
    /\ UNCHANGED <<touched, life, refreshVars, screenVars, opVars, viewer, world>>

PayoutsRefetch ==
    /\ Key("r", "payouts")
    /\ FetchPayouts
    /\ UNCHANGED <<menuVars, life, refreshVars, screenVars, opVars, viewer, world>>

\* esc (or q, or n) closes a menu; any key closes the help and the payouts.
KeyClose ==
    /\ Awake
    /\ \/ "esc" \in Keys /\ menu.mode \in {"target", "action", "confirm"}
       \/ Keys # {} /\ menu.mode = "help"
       \/ Keys \ {"r"} # {} /\ menu.mode = "payouts"
    /\ ToDashboard

KeyMove ==
    \E step \in (IF "up" \in Keys THEN {2} ELSE {}) \cup (IF "down" \in Keys THEN {1} ELSE {}) :
        /\ Awake
        /\ \/ /\ menu.mode = "target"
              /\ MenuOnly([menu EXCEPT !.target = (@ + step) % 3], touched)
           \/ /\ menu.mode = "action"
              /\ MenuOnly([menu EXCEPT !.action = (@ + step) % 3], touched)

TargetEnter ==
    /\ Key("enter", "target")
    /\ ~menu.forLogs
    /\ MenuOnly([menu EXCEPT !.mode = "action", !.action = 0], touched)

TargetEnterLogs ==
    /\ Key("enter", "target")
    /\ menu.forLogs
    /\ viewer.asked + viewer.returned < MaxViewers
    /\ menu' = [menu EXCEPT !.mode = "dashboard"]
    /\ viewer' = [viewer EXCEPT !.asked = @ + 1]
    /\ UNCHANGED <<touched, life, refreshVars, screenVars, opVars, payVars, world>>

ActionEnterStart ==
    /\ Key("enter", "action")
    /\ actions[menu.action + 1] = "start"
    /\ Launch

\* Cancel is the default of the confirmation.
DefaultOKKept == menu.confirmOK
DefaultOK == FALSE

ActionEnter ==
    /\ Key("enter", "action")
    /\ actions[menu.action + 1] # "start"
    /\ MenuOnly([menu EXCEPT !.mode = "confirm", !.confirmOK = DefaultOK], FALSE)

ConfirmToggle ==
    /\ Key("toggle", "confirm")
    /\ MenuOnly([menu EXCEPT !.confirmOK = ~@], TRUE)

ConfirmEnter ==
    /\ Key("enter", "confirm")
    /\ IF menu.confirmOK THEN Launch ELSE ToDashboard

-----------------------------------------------------------------------------
(* The miner's unit: systemd, an operator or an earlier control operation   *)
(* starts and stops it at any time.                                         *)

UnitStarts ==
    /\ Alive
    /\ ~world.running
    /\ world.session < MaxSession
    /\ world' = [session |-> world.session + 1, running |-> TRUE, rejected |-> 0]
    /\ UNCHANGED <<menuVars, life, refreshVars, screenVars, opVars, payVars, viewer>>

UnitStops ==
    /\ Alive
    /\ world.running
    /\ world' = [world EXCEPT !.running = FALSE]
    /\ UNCHANGED <<menuVars, life, refreshVars, screenVars, opVars, payVars, viewer>>

\* The program has ended.
Exited == life = "exited" /\ UNCHANGED vars

-----------------------------------------------------------------------------
Collections == \E i \in 1 .. Len(inflight) : ReadUnits(i) \/ ReadMiner(i)
Snapshots   == \E i \in 1 .. Len(inflight) : SnapshotMsg(i)

MenuKey ==
    \/ KeyServices \/ KeyLogs \/ KeyHelp \/ KeyClose \/ KeyMove
    \/ TargetEnter \/ TargetEnterLogs \/ ActionEnter \/ ActionEnterStart
    \/ ConfirmToggle \/ ConfirmEnter

Next ==
    \/ Tick \/ KeyRefresh \/ Collections \/ Snapshots
    \/ PayTick \/ KeyPayouts \/ PayoutsRefetch \/ PayoutsMsg
    \/ MenuKey \/ OpMsg
    \/ ViewerOpens \/ ViewerCloses \/ LogsMsg
    \/ KeyQuit \/ QuitMsg \/ Exited
    \/ UnitStarts \/ UnitStops

Spec == Init /\ [][Next]_vars

\* Timers fire, commands end (each has a deadline, or reads a local file) and
\* their messages are delivered.  Nothing is assumed of the user or of the unit.
Fairness ==
    /\ WF_vars(Tick)
    /\ WF_vars(Collections)
    /\ WF_vars(Snapshots)
    /\ WF_vars(OpMsg)
    /\ WF_vars(PayoutsMsg)
    /\ WF_vars(QuitMsg)

FairSpec == Spec /\ Fairness

-----------------------------------------------------------------------------
(* Properties. *)

\* A guard that is up is always taken down again by a command in flight: tui.go's
\* collecting, paying and busy can never be left set with nobody to clear them
\* (which would end all refreshes, fetches or control operations for good).
GuardsOwned ==
    /\ collecting => inflight # <<>>
    /\ paying => fetches # <<>>
    /\ busy <=> op # NoOp

\* The commands Init issues run outside the guards, so two collections, or two
\* payout fetches, may overlap (tui.go:102); there are never three, and there is
\* never a second one beside a guarded first.
AtMostTwo ==
    /\ Len(inflight) <= (IF collecting THEN 2 ELSE 1)
    /\ Len(fetches) <= (IF paying THEN 2 ELSE 1)

\* launch drops a request while an operation runs (SYS-09).  No menu leads there:
\* whoever has chosen an action, or confirms one, gets it launched.
NoOperationDropped == menu.mode \in {"action", "confirm"} => Idle /\ ~menu.forLogs

\* stop and restart are launched only after the user moved the selection of this
\* very dialog off Cancel (UI-03), whatever messages came in while it was open.
StopIsConfirmed ==
    [][op = NoOp /\ op' \notin {NoOp} \cup [verb : {"start"}, target : Cycle] => touched]_vars

\* Two neighbouring values of the chart, each recorded while systemd reported the
\* unit active, were recorded under one InvocationID: a gap separates sessions
\* (DATA-08), also after snapshots out of order and after points were trimmed.  They
\* come from one process, too, unless one of their collections fell on a restart so
\* early in a process's life that the comparison of uptimes cannot notice it.
ProvenPointsOfOneSession ==
    \A k \in 1 .. Len(history) - 1 :
        LET p == history[k]
            q == history[k + 1]
        IN  p.value /\ p.proven /\ q.value /\ q.proven =>
                p.inv = q.inv /\ (p.of = q.of \/ p.brief \/ q.brief)

\* The overlap of Init is not permanent: from the first moment no collection is
\* in flight on, collections exclude each other (tui.go:113).
ExclusiveOnceDrained == [](inflight = <<>> => [](Len(inflight) <= 1))

\* The collections, and the payout fetches, are each a refresher: started one at a
\* time but for the first of Init, by whichever of the seven handlers, and freed by
\* each delivery, in whatever order the deliveries come.
Collecting == INSTANCE Refresher WITH guard <- collecting, flights <- Len(inflight)
Paying     == INSTANCE Refresher WITH guard <- paying, flights <- Len(fetches)

SingleFlight == Collecting!RefresherSpec /\ Paying!RefresherSpec

\* A control operation ends and frees the menu, unless the program ends or a
\* journal view holds the event loop.
OperationEnds == busy ~> ~busy \/ life # "running" \/ viewer.open

\* Once operations stop, the dashboard comes to show, and keeps showing, snapshots
\* that were started after the last result, though opMsg's own refresh is skipped
\* while an older collection runs (tui.go:183).
LastOperationShown ==
    <>[](~busy /\ life = "running" /\ ~viewer.open) => <>[]shown

-----------------------------------------------------------------------------
(* What the documents say, and the code does not do. *)

\* docs/spec.md H-04: a growth warning only "when two fresh samples of one session
\* show an increase".  view.go:89 compares the counters of any two snapshots.
WarningOfOneSession == RejectedWarning => prev.of = snap.of
=============================================================================
