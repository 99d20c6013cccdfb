------------------------------ MODULE Collector -------------------------------
(***************************************************************************)
(* One collection of a snapshot, internal/status/collect.go, against units *)
(* that start, stop and crash, a P2Pool that rewrites local/p2p, and two   *)
(* clocks.                                                                 *)
(*                                                                         *)
(* Collect reads `systemctl show', the miner's API and the Data API in     *)
(* three goroutines, waits for all of them, reads both clocks and only     *)
(* then compares.  The three reads see three different moments, and the    *)
(* read of a file is itself two moments: fstat, then the content.          *)
(*                                                                         *)
(* A tick of `now' is a fraction 1/Grain of a second of CLOCK_MONOTONIC;   *)
(* the wall clock is `now' plus `offset', which may be stepped.  Processes *)
(* report their uptime in whole seconds.  The fields st, start, at, ws, wt *)
(* of a read that the code does not see are for the properties.            *)
(*                                                                         *)
(* An operator named after another with a suffix (LinkedAlways) is a slip  *)
(* the code could have had, kept to show that a property notices.          *)
(***************************************************************************)
EXTENDS Health

CONSTANTS
    Grain,         \* ticks per second
    Tolerance,     \* SessionTolerance, in ticks
    P2PStaleAfter, \* ticks
    ClockSkewMax,  \* ticks
    ReadTimeout,   \* bound of one systemctl or HTTP read, in ticks
    MaxTime,       \* bound: the last tick
    Restarting,    \* bound: the units that start, stop and crash
    Steps,         \* bound: what the wall clock may be stepped by
    ZMQWritten,    \* ages of the ZMQ activity that P2Pool writes down
    Foreign,       \* another XMRig may own the API's port
    Silent,        \* the sources that may carry no uptime: a subset of {"miner", "file"}
    Faults         \* the reads that may fail: a subset of {"units", "miner", "file"}

ASSUME CollectorAssumption ==
    /\ Grain \in Nat \ {0}
    /\ Tolerance \in Nat /\ P2PStaleAfter \in Nat /\ ClockSkewMax \in Nat
    /\ ReadTimeout \in Nat /\ MaxTime \in Nat
    /\ Restarting \subseteq Units
    /\ Steps \subseteq Int
    /\ ZMQWritten \subseteq Nullable
    /\ Foreign \in BOOLEAN
    /\ Silent \subseteq {"miner", "file"}
    /\ Faults \subseteq {"units", "miner", "file"}

VARIABLES
    now, offset,   \* CLOCK_MONOTONIC, and the wall clock minus it
    unit,          \* ActiveState and start of the latest process of each unit
    linked,        \* the unit owns the Data API directory (never changes)
    file,          \* local/p2p on disk
    stepped,       \* history variable: the wall clock has been stepped
    phase,         \* idle, reading, done
    began,         \* the tick at which Collect started
    reads,         \* what the three goroutines have found so far
    snap           \* the snapshot

worldVars == <<now, offset, stepped, unit, linked, file>>
vars == <<worldVars, phase, began, reads, snap>>

Wall == now + offset

\* Whole seconds, as processes report them.
Whole(t) == t - (t % Grain)

Alive(u) == unit[u].state \in {"active", "deactivating"}

\* Whether what a source says carries its uptime.
Carried(source) == IF source \in Silent THEN BOOLEAN ELSE {TRUE}

-----------------------------------------------------------------------------
(* The reads of one collection. *)

NoFile   == [exists |-> FALSE, mtime |-> 0, wt |-> 0, ws |-> 0, up |-> FALSE, zmq |-> Null]
Unread   == [units |-> [st |-> "unread"], miner |-> [st |-> "unread"], file |-> [st |-> "unread"]]
Ended(r) == /\ r.units.st \in {"seen", "failed"}
            /\ r.miner.st \in {"answered", "down"}
            /\ r.file.st \in {"read", "failed"}

NoSnapshot == [at |-> 0, level |-> "none"]

Init ==
    /\ now = 1
    /\ offset = 0
    /\ stepped = FALSE
    /\ unit = [u \in Units |-> IF u \in Restarting THEN [state |-> "inactive", start |-> 0]
                                                   ELSE [state |-> "active", start |-> 1]]
    /\ linked \in BOOLEAN
    /\ file = NoFile
    /\ phase = "idle"
    /\ began = 0
    /\ reads = Unread
    /\ snap = NoSnapshot

-----------------------------------------------------------------------------
(* The world: time, systemd, P2Pool. *)

\* The context deadline ends the reads of systemctl and of the API; nothing bounds
\* the read of a file.
Tick ==
    /\ now < MaxTime
    /\ phase = "reading" /\ (reads.units.st = "unread" \/ reads.miner.st = "unread")
           => now < began + ReadTimeout
    /\ now' = now + 1
    /\ UNCHANGED <<offset, stepped, unit, linked, file, phase, began, reads, snap>>

\* Bound: one step.
ClockStep ==
    /\ ~stepped
    /\ offset' \in Steps
    /\ stepped' = TRUE
    /\ UNCHANGED <<now, unit, linked, file, phase, began, reads, snap>>

Start(u) ==
    /\ u \in Restarting
    /\ unit[u].state \in {"inactive", "activating"}
    /\ unit' = [unit EXCEPT ![u] = [state |-> "active", start |-> now]]
    /\ UNCHANGED <<now, offset, stepped, linked, file, phase, began, reads, snap>>

Stop(u) ==
    /\ u \in Restarting
    /\ unit[u].state = "active"
    /\ unit' = [unit EXCEPT ![u].state = "deactivating"]
    /\ UNCHANGED <<now, offset, stepped, linked, file, phase, began, reads, snap>>

\* The process is gone: after a stop, or by a crash that Restart=on-failure follows.
\* systemd removes a runtime directory with the process; an open descriptor keeps
\* the removed file as it was.
Gone(u) ==
    /\ u \in Restarting
    /\ Alive(u)
    /\ unit' = [unit EXCEPT ![u].state = IF @ = "active" THEN "activating" ELSE "inactive"]
    /\ IF u = "p2pool" /\ linked
       THEN /\ file' = NoFile
            /\ reads' = IF reads.file.st = "open"
                        THEN [reads EXCEPT !.file.attached = FALSE] ELSE reads
       ELSE UNCHANGED <<file, reads>>
    /\ UNCHANGED <<now, offset, stepped, linked, phase, began, snap>>

\* P2Pool rewrites local/p2p in place: a reader that has the file open finds the new
\* content under the modification time it has already read.
WriteFile ==
    /\ Alive("p2pool")
    /\ \E z \in ZMQWritten, up \in Carried("file") :
          /\ file' = [exists |-> TRUE, mtime |-> Wall, wt |-> now,
                      ws |-> unit["p2pool"].start, up |-> up, zmq |-> z]
          /\ reads' = IF reads.file.st = "open" /\ reads.file.attached
                      THEN [reads EXCEPT !.file.wt = now, !.file.zmq = z, !.file.up = up,
                                         !.file.ws = unit["p2pool"].start]
                      ELSE reads
    /\ UNCHANGED <<now, offset, stepped, unit, linked, phase, began, snap>>

-----------------------------------------------------------------------------
(* The three goroutines. *)

\* Collect.
Begin ==
    /\ phase # "reading"
    /\ phase' = "reading"
    /\ began' = now
    /\ reads' = Unread
    /\ snap' = NoSnapshot
    /\ UNCHANGED worldVars

ReadUnits ==
    /\ phase = "reading"
    /\ reads.units.st = "unread"
    /\ \/ reads' = [reads EXCEPT !.units = [st |-> "seen", unit |-> unit]]
       \/ /\ "units" \in Faults
          /\ reads' = [reads EXCEPT !.units = [st |-> "failed"]]
    /\ UNCHANGED <<worldVars, phase, began, snap>>

ReadMiner ==
    /\ phase = "reading"
    /\ reads.miner.st = "unread"
    /\ \/ /\ Alive("xmrig")
          /\ \E up \in Carried("miner") :
                reads' = [reads EXCEPT !.miner = [st |-> "answered", expected |-> TRUE, at |-> now,
                                                  start |-> unit["xmrig"].start, up |-> up]]
       \/ /\ Foreign
          /\ \E same \in BOOLEAN, up \in Carried("miner") :
                reads' = [reads EXCEPT !.miner = [st |-> "answered", expected |-> same, at |-> now,
                                                  start |-> 1, up |-> up]]
       \/ /\ "miner" \in Faults \/ ~Alive("xmrig")
          /\ reads' = [reads EXCEPT !.miner = [st |-> "down"]]
    /\ UNCHANGED <<worldVars, phase, began, snap>>

\* readOnce: open and fstat ...
OpenFile ==
    /\ phase = "reading"
    /\ reads.file.st = "unread"
    /\ \/ /\ file.exists
          /\ reads' = [reads EXCEPT !.file =
                [st |-> "open", attached |-> TRUE, mtime |-> file.mtime,
                 wt |-> file.wt, ws |-> file.ws, up |-> file.up, zmq |-> file.zmq,
                 live |-> Alive("p2pool") /\ file.ws = unit["p2pool"].start]]
       \/ /\ "file" \in Faults \/ ~file.exists
          /\ reads' = [reads EXCEPT !.file = [st |-> "failed"]]
    /\ UNCHANGED <<worldVars, phase, began, snap>>

\* ... then the content.
ReadContent ==
    /\ phase = "reading"
    /\ reads.file.st = "open"
    /\ reads' = [reads EXCEPT !.file.st = "read"]
    /\ UNCHANGED <<worldVars, phase, began, snap>>

-----------------------------------------------------------------------------
(* What the collector makes of the reads. *)

\* serviceFrom: the uptime of a process that started before this tick.
UptimeOf(sv) == IF sv.state = "active" /\ now > sv.start THEN now - sv.start ELSE Null

Unseen == [state |-> "", start |-> 0]
Service(r, u) == IF r.units.st = "seen" THEN r.units.unit[u] ELSE Unseen

\* applyXMRig
DisagreesOneSided(up, api) == api - up > Tolerance
DisagreesAtTolerance(up, api) == up - api >= Tolerance \/ up - api < -Tolerance
Disagrees(up, api) == up - api > Tolerance \/ up - api < -Tolerance

MinerSource(r) ==
    LET sv == Service(r, "xmrig")
        up == UptimeOf(sv)
    IN  IF r.miner.st = "down" THEN [state |-> "unavailable", code |-> "SOURCE_ERROR"]
        ELSE [state |-> "ok",
              code |-> IF ~r.miner.expected THEN "SOURCE_ID_MISMATCH"
                       ELSE IF up # Null /\ r.miner.up
                       THEN IF Disagrees(up, Whole(r.miner.at - r.miner.start))
                            THEN "SOURCE_NOT_CURRENT_SESSION" ELSE ""
                       ELSE IF sv.state = "active" THEN "SOURCE_SESSION_UNKNOWN" ELSE ""]

\* fileSource: a file a little ahead of the wall clock has age 0.
AgeUnclamped(f) == Wall - f.mtime
AgeAtStart(f) == IF began + offset - f.mtime < 0 THEN 0 ELSE began + offset - f.mtime
AgeOf(f) ==
    IF Wall - f.mtime < -ClockSkewMax THEN Null
    ELSE IF Wall - f.mtime < 0 THEN 0
    ELSE Wall - f.mtime

\* p2poolSession
Exceeds(fileUptime, age, up) == fileUptime + age > up + Tolerance
LinkedAlways == TRUE
Linked == linked

\* A file without an uptime is not compared: in a directory that systemd removes with
\* the process it confirms the unit all the same.
SessionCode(r, age) ==
    LET up == UptimeOf(Service(r, "p2pool"))
    IN  IF up = Null THEN "SOURCE_SESSION_UNKNOWN"
        ELSE IF r.file.up /\ Exceeds(Whole(r.file.wt - r.file.ws), age, up)
        THEN "SOURCE_NOT_CURRENT_SESSION"
        ELSE IF Linked THEN "" ELSE "SOURCE_SESSION_UNKNOWN"

FileSource(r) ==
    LET age == AgeOf(r.file)
    IN  IF r.file.st = "failed" THEN [state |-> "unavailable", code |-> "SOURCE_ERROR"]
        ELSE IF age = Null THEN [state |-> "ok", code |-> "CLOCK_UNCERTAIN"]
        ELSE IF age > P2PStaleAfter THEN [state |-> "stale", code |-> "SOURCE_STALE"]
        ELSE [state |-> "ok", code |-> SessionCode(r, age)]

\* The age of the ZMQ activity has grown by the age of the file since.
ZMQAgeAtWrite(r) == IF r.file.st = "failed" THEN Null ELSE r.file.zmq
ZMQAge(r) ==
    IF r.file.st = "failed" \/ r.file.zmq = Null \/ AgeOf(r.file) = Null THEN Null
    ELSE r.file.zmq + AgeOf(r.file)

\* The snapshot that Evaluate judges: what answers mines and has peers, and the
\* other three files are missing.
Snapshot(r) ==
    [systemd |-> IF r.units.st = "seen" THEN "ok" ELSE "unavailable",
     unit    |-> [u \in Units |-> [load |-> "loaded", active |-> Service(r, u).state]],
     xmrig   |-> [src |-> MinerSource(r),
                  connected |-> IF r.miner.st = "down" THEN Null ELSE 1,
                  hashrate |-> IF r.miner.st = "down" THEN Null ELSE 1],
     p2p     |-> [src |-> FileSource(r),
                  connections |-> IF r.file.st = "failed" THEN Null ELSE 1,
                  zmqAge |-> ZMQAge(r), peerMax |-> Null],
     events  |-> {},
     height  |-> Null]

\* wg.Wait has returned: both clocks are read, the results applied, Evaluate called.
Finish ==
    /\ phase = "reading"
    /\ Ended(reads)
    /\ phase' = "done"
    /\ snap' = [at |-> now, level |-> Level(Snapshot(reads)),
                xmrig |-> MinerSource(reads), p2p |-> FileSource(reads),
                age |-> IF reads.file.st = "failed" THEN Null ELSE AgeOf(reads.file)]
    /\ UNCHANGED <<worldVars, began, reads>>

\* Bound: once the last read is done only time matters to this collection, and the
\* world rests while a snapshot is looked at.  Collect keeps nothing from one call to
\* the next, so what happens in between may as well happen before the first read.
World ==
    \/ /\ phase # "done"
       /\ Tick \/ ClockStep
    \/ /\ phase = "idle" \/ (phase = "reading" /\ ~Ended(reads))
       /\ WriteFile \/ \E u \in Units : Start(u) \/ Stop(u) \/ Gone(u)

Next == World \/ Begin \/ ReadUnits \/ ReadMiner \/ OpenFile \/ ReadContent \/ Finish

Spec == Init /\ [][Next]_vars

-----------------------------------------------------------------------------
(* Properties. *)

Done == phase = "done"
Ok(src) == src = [state |-> "ok", code |-> ""]

SeenActive(u) == reads.units.st = "seen" /\ reads.units.unit[u].state = "active"
SeenStart(u)  == reads.units.unit[u].start

Waited == snap.at - reads.miner.at   \* from the API's answer to the comparison

\* The process that answered the API started when systemd says that the unit's did:
\* within the tolerance, widened on one side by the wait and by the fraction of a
\* second that its uptime drops.
MinerIsClose ==
    /\ reads.miner.expected
    /\ reads.miner.start - SeenStart("xmrig")
            \in -(Tolerance + Waited + Grain - 1) .. Tolerance - Waited

\* applyXMRig (DATA-08): a summary that comes out without an error code, of a unit
\* seen active, is of a process that started when the unit's did, within MinerIsClose's
\* window, however the three reads and a restart interleave, whoever else owns the port
\* and whether or not the answer carries an uptime.
MinerMatchesUnit == Done /\ Ok(snap.xmrig) /\ SeenActive("xmrig") => MinerIsClose

\* applyXMRig: the unit's own process is accused of being another one only when the
\* collection waited longer than the tolerance after the API had answered.
NoFalseMinerAlarm ==
    /\ Done
    /\ snap.xmrig.code = "SOURCE_NOT_CURRENT_SESSION"
    /\ reads.miner.start = SeenStart("xmrig")
    => Waited + Grain - 1 > Tolerance

\* The writer of local/p2p was alive when the file was opened, and if it is not the process
\* that systemd reported, or a later one, then the unit was restarted during this very
\* collection: whatever the clock does, with or without an uptime in the file.  The
\* comparison of an uptime, if the clock was not stepped, leaves the writer no more than
\* the tolerance to have started before the reported process.
FileIsLive ==
    /\ reads.file.live
    /\ reads.file.ws >= SeenStart("p2pool") \/ SeenStart("p2pool") >= began
    /\ reads.file.up /\ ~stepped => reads.file.ws - SeenStart("p2pool") >= -(Tolerance + Grain - 1)

\* p2poolSession (DATA-08): local/p2p confirms the unit that systemd saw running only
\* if it is live; a file that survives its writer never confirms.
ConfirmedFileIsLive == Done /\ Ok(snap.p2p) => SeenActive("p2pool") /\ FileIsLive

TrueAge == snap.at - reads.file.wt

\* fileSource (DATA-06, DATA-07): without a step of the clock, data that is not called
\* stale was written within P2PStaleAfter before the comparison, however slow the read.
FreshIsFresh == Done /\ snap.p2p.state = "ok" /\ ~stepped => TrueAge <= P2PStaleAfter

\* Whatever the wall clock does, a confirmed file has an age that is not negative: the
\* doctor (doctor.go:158) and the views dereference it without a check.
ConfirmedHasAge == Done /\ Ok(snap.p2p) => snap.age \in Nat

\* Collect and Evaluate together: `ok' means that at one moment of the collection both
\* units were active, that the API spoke for such a process of the miner, and that the
\* file was that of a live P2Pool (FileIsLive), recently written, ZMQ included.
OkIsHonest ==
    Done /\ snap.level = "ok" =>
        /\ \A u \in Units : SeenActive(u)
        /\ MinerIsClose
        /\ FileIsLive
        /\ ~stepped => /\ TrueAge <= P2PStaleAfter
                        /\ reads.file.zmq \in 0 .. ZMQOldAfter - TrueAge
=============================================================================
