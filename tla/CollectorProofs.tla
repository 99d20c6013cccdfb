---------------------------- MODULE CollectorProofs ----------------------------
(***************************************************************************)
(* Collector: what a snapshot that raises no error says of the processes,  *)
(* for any grain, tolerances, limits and timeout, any steps of the clock   *)
(* and any interleaving of the reads with restarts.                        *)
(*                                                                         *)
(* The invariant dates every read: who wrote what it found, when, and      *)
(* under which clock.  While a snapshot is looked at the world rests, so   *)
(* the snapshot is still what Finish computed, and each property is then   *)
(* arithmetic about whole seconds, ages and waits.                         *)
(***************************************************************************)
EXTENDS Collector, TLAPS

UnitStates == {"active", "inactive", "activating", "deactivating"}
UnitRecord == [state : UnitStates, start : Nat]
FileRecord == [exists : BOOLEAN, mtime : Int, wt : Nat, ws : Nat, up : BOOLEAN, zmq : Nullable]

UnitsReads == [st : {"unread", "failed"}] \cup [st : {"seen"}, unit : [Units -> UnitRecord]]
MinerReads == [st : {"unread", "down"}]
                 \cup [st : {"answered"}, expected : BOOLEAN, at : Nat, start : Nat, up : BOOLEAN]
FileReads  == [st : {"unread", "failed"}]
                 \cup [st : {"open", "read"}, attached : BOOLEAN, mtime : Int, wt : Nat,
                       ws : Nat, up : BOOLEAN, zmq : Nullable, live : BOOLEAN]

TypeOK ==
    /\ now \in Nat /\ offset \in Int /\ stepped \in BOOLEAN
    /\ unit \in [Units -> UnitRecord]
    /\ linked \in BOOLEAN
    /\ file \in FileRecord
    /\ phase \in {"idle", "reading", "done"}
    /\ began \in Nat
    /\ reads \in [units : UnitsReads, miner : MinerReads, file : FileReads]

\* Time only advances; the two clocks agree until one is stepped.
ClockInv == now >= 1 /\ began <= now /\ (~stepped => offset = 0)
StartInv == \A u \in Units : unit[u].start <= now

\* A file was written by a process that had started, and in a directory of the unit's
\* own it is the work of the process that runs now.
FileInv ==
    /\ file.ws <= file.wt /\ file.wt <= now
    /\ ~stepped => file.mtime <= file.wt
    /\ linked /\ file.exists => Alive("p2pool") /\ file.ws = unit["p2pool"].start

\* What a read found was so at its moment; a file may be newer than its time stamp.
UnitsReadInv ==
    reads.units.st = "seen" => \A u \in Units : reads.units.unit[u].start <= unit[u].start
MinerReadInv == reads.miner.st = "answered" => /\ reads.miner.start <= reads.miner.at
                                               /\ reads.miner.at <= now
\* The file that was read is not of a process before the one that started at t, unless
\* that one started during this collection.
Since(t) == reads.file.ws >= t \/ t >= began

FileReadInv ==
    reads.file.st \in {"open", "read"} =>
        /\ reads.file.ws <= reads.file.wt /\ reads.file.wt <= now
        /\ ~stepped => reads.file.mtime <= reads.file.wt
        /\ linked => reads.file.live
        /\ reads.file.live => Since(unit["p2pool"].start)
        /\ reads.file.live /\ reads.units.st = "seen" => Since(SeenStart("p2pool"))

ReadInv == TypeOK /\ ClockInv /\ StartInv /\ FileInv /\ UnitsReadInv /\ MinerReadInv /\ FileReadInv

\* A snapshot is what Finish makes of the reads.
SnapInv ==
    Done => /\ Ended(reads)
            /\ snap = [at |-> now, level |-> Level(Snapshot(reads)),
                       xmrig |-> MinerSource(reads), p2p |-> FileSource(reads),
                       age |-> IF reads.file.st = "failed" THEN Null ELSE AgeOf(reads.file)]

CollectInv == ReadInv /\ SnapInv

-----------------------------------------------------------------------------
(* The steps of one collection, and the world beside it. *)

\* What is not read yet, and what a read may find.
LEMMA ReadTypes ==
    /\ Unread \in [units : UnitsReads, miner : MinerReads, file : FileReads]
    /\ [st |-> "failed"] \in UnitsReads /\ [st |-> "down"] \in MinerReads
    /\ [st |-> "failed"] \in FileReads
    /\ NoFile \in FileRecord
<1>1. [st |-> "unread"] \in UnitsReads /\ [st |-> "failed"] \in UnitsReads
  BY DEF UnitsReads
<1>2. [st |-> "unread"] \in MinerReads /\ [st |-> "down"] \in MinerReads
  BY DEF MinerReads
<1>3. [st |-> "unread"] \in FileReads /\ [st |-> "failed"] \in FileReads
  BY DEF FileReads
<1>4. NoFile \in FileRecord
  BY DEF NoFile, FileRecord, Nullable, Null
<1> QED
  BY <1>1, <1>2, <1>3, <1>4 DEF Unread

\* The parts of the state have the fields that the steps read.
LEMMA Values ==
    ASSUME TypeOK
    PROVE  /\ \A u \in Units : unit[u] \in UnitRecord /\ unit[u].start \in Nat /\ unit[u].state \in UnitStates
           /\ file.mtime \in Int /\ file.wt \in Nat /\ file.ws \in Nat
           /\ file.up \in BOOLEAN /\ file.zmq \in Nullable
           /\ reads.units \in UnitsReads /\ reads.miner \in MinerReads /\ reads.file \in FileReads
BY DEF TypeOK, UnitRecord, FileRecord

\* What a read that answered has found.
LEMMA ReadValues ==
    ASSUME TypeOK
    PROVE  /\ reads.units.st = "seen" => /\ reads.units.unit \in [Units -> UnitRecord]
                                         /\ \A u \in Units : /\ reads.units.unit[u].start \in Nat
                                                             /\ reads.units.unit[u].state \in UnitStates
           /\ reads.miner.st = "answered" => /\ reads.miner.expected \in BOOLEAN
                                             /\ reads.miner.at \in Nat /\ reads.miner.start \in Nat
           /\ reads.file.st \in {"open", "read"} =>
                 /\ reads.file.mtime \in Int /\ reads.file.wt \in Nat /\ reads.file.ws \in Nat
                 /\ reads.file.zmq \in Nullable /\ reads.file.live \in BOOLEAN
                 /\ reads.file \in [st : {"open", "read"}, attached : BOOLEAN, mtime : Int, wt : Nat,
                                    ws : Nat, up : BOOLEAN, zmq : Nullable, live : BOOLEAN]
<1>1. reads.units \in UnitsReads /\ reads.miner \in MinerReads /\ reads.file \in FileReads
  BY Values
<1>2. reads.units.st = "seen" => reads.units.unit \in [Units -> UnitRecord]
  BY <1>1 DEF UnitsReads
<1>3. reads.units.st = "seen" => \A u \in Units : /\ reads.units.unit[u].start \in Nat
                                                  /\ reads.units.unit[u].state \in UnitStates
  BY <1>2 DEF UnitRecord
<1>4. reads.miner.st = "answered" => /\ reads.miner.expected \in BOOLEAN
                                     /\ reads.miner.at \in Nat /\ reads.miner.start \in Nat
  BY <1>1 DEF MinerReads
<1>5. reads.file.st \in {"open", "read"} =>
          reads.file \in [st : {"open", "read"}, attached : BOOLEAN, mtime : Int, wt : Nat,
                          ws : Nat, up : BOOLEAN, zmq : Nullable, live : BOOLEAN]
  BY <1>1 DEF FileReads
<1> QED
  BY <1>2, <1>3, <1>4, <1>5

\* The initial states satisfy the invariant.
LEMMA InvInit == Init => CollectInv
<1> SUFFICES ASSUME Init PROVE CollectInv
  OBVIOUS
<1>1. [state |-> "inactive", start |-> 0] \in UnitRecord /\ [state |-> "active", start |-> 1] \in UnitRecord
  BY DEF UnitRecord, UnitStates
<1>2. unit \in [Units -> UnitRecord] /\ \A u \in Units : unit[u].start \in {0, 1}
  BY <1>1 DEF Init
<1>3. TypeOK
  <2>1. /\ now \in Nat /\ offset \in Int /\ began \in Nat
        /\ phase \in {"idle", "reading", "done"}
    BY DEF Init
  <2>2. linked \in BOOLEAN /\ file = NoFile /\ reads = Unread
    BY DEF Init
  <2>3. /\ file \in FileRecord
        /\ reads \in [units : UnitsReads, miner : MinerReads, file : FileReads]
    BY <2>2, ReadTypes, Zenon
  <2>4. stepped \in BOOLEAN
    BY DEF Init
  <2> QED
    BY <1>2, <2>1, <2>2, <2>3, <2>4, Zenon DEF TypeOK
<1>4. ClockInv /\ StartInv
  BY <1>2 DEF Init, ClockInv, StartInv
<1>5. FileInv
  BY DEF Init, FileInv, NoFile
<1>6. UnitsReadInv /\ MinerReadInv /\ FileReadInv
  BY DEF Init, UnitsReadInv, MinerReadInv, FileReadInv, Unread
<1>7. SnapInv
  BY DEF Init, SnapInv, Done
<1> QED
  BY <1>3, <1>4, <1>5, <1>6, <1>7 DEF CollectInv, ReadInv

\* Time passes.
LEMMA TickStep == ReadInv /\ Tick => ReadInv'
<1> SUFFICES ASSUME ReadInv, Tick PROVE ReadInv'
  OBVIOUS
<1>1. now' = now + 1 /\ now \in Nat /\ UNCHANGED <<offset, stepped, unit, linked, file, phase, began, reads>>
  BY DEF Tick, ReadInv, TypeOK
<1>2. TypeOK'
  BY <1>1 DEF ReadInv, TypeOK
<1>3. ClockInv' /\ StartInv'
  BY <1>1, Values DEF ReadInv, TypeOK, ClockInv, StartInv
<1>4. FileInv'
  BY <1>1, Values DEF ReadInv, FileInv, Alive
<1>5. UnitsReadInv' /\ MinerReadInv' /\ FileReadInv'
  BY <1>1, ReadValues DEF ReadInv, UnitsReadInv, MinerReadInv, FileReadInv, Since, SeenStart
<1> QED
  BY <1>2, <1>3, <1>4, <1>5 DEF ReadInv

\* The wall clock is stepped: nothing is known of time stamps any more.
LEMMA ClockStepStep == ReadInv /\ ClockStep => ReadInv'
<1> SUFFICES ASSUME ReadInv, ClockStep PROVE ReadInv'
  OBVIOUS
<1>1. offset' \in Int /\ stepped' = TRUE /\ UNCHANGED <<now, unit, linked, file, phase, began, reads>>
  BY CollectorAssumption DEF ClockStep
<1>2. TypeOK'
  BY <1>1 DEF ReadInv, TypeOK
<1>3. ClockInv' /\ StartInv'
  BY <1>1 DEF ReadInv, ClockInv, StartInv
<1>4. FileInv'
  BY <1>1 DEF ReadInv, FileInv, Alive
<1>5. UnitsReadInv' /\ MinerReadInv' /\ FileReadInv'
  BY <1>1 DEF ReadInv, UnitsReadInv, MinerReadInv, FileReadInv, Since, SeenStart
<1> QED
  BY <1>2, <1>3, <1>4, <1>5 DEF ReadInv

\* A process starts: in its own runtime directory there is no file yet.
LEMMA StartStep ==
    ASSUME ReadInv, NEW u \in Units, Start(u)
    PROVE  ReadInv'
<1>1. /\ unit' = [unit EXCEPT ![u] = [state |-> "active", start |-> now]]
      /\ unit[u].state \in {"inactive", "activating"}
      /\ UNCHANGED <<now, offset, stepped, linked, file, phase, began, reads>>
  BY DEF Start
<1>2. now \in Nat /\ unit \in [Units -> UnitRecord] /\ TypeOK
  BY DEF ReadInv, TypeOK
<1>3. [state |-> "active", start |-> now] \in UnitRecord
  BY <1>2 DEF UnitRecord, UnitStates
<1>4. TypeOK'
  BY <1>1, <1>2, <1>3 DEF TypeOK
<1>5. /\ \A w \in Units \ {u} : unit'[w] = unit[w]
      /\ unit'[u].start = now
  BY <1>1, <1>2
<1>6. ClockInv' /\ StartInv'
  BY <1>1, <1>2, <1>5 DEF ReadInv, ClockInv, StartInv
<1>7. FileInv'
  <2>1. linked /\ file.exists => u # "p2pool"
    BY <1>1 DEF ReadInv, FileInv, Alive
  <2>2. u # "p2pool" => unit'["p2pool"] = unit["p2pool"]
    BY <1>1, <1>2 DEF Units
  <2> QED
    BY <1>1, <2>1, <2>2 DEF ReadInv, FileInv, Alive
<1>8. UnitsReadInv' /\ MinerReadInv'
  <2>1. \A w \in Units : unit[w].start \in Nat /\ unit'[w].start >= unit[w].start
    BY <1>2, <1>5, Values DEF ReadInv, StartInv
  <2>2. UnitsReadInv'
    BY <1>1, <1>2, <2>1, ReadValues DEF ReadInv, UnitsReadInv
  <2> QED
    BY <1>1, <2>2 DEF ReadInv, MinerReadInv
<1>9. FileReadInv'
  <2>1. unit'["p2pool"].start = now \/ unit'["p2pool"].start = unit["p2pool"].start
    BY <1>5 DEF Units
  <2> QED
    BY <1>1, <1>2, <2>1 DEF ReadInv, ClockInv, FileReadInv, Since, SeenStart
<1> QED
  BY <1>4, <1>6, <1>7, <1>8, <1>9 DEF ReadInv

\* A process is asked to stop.
LEMMA StopStep ==
    ASSUME ReadInv, NEW u \in Units, Stop(u)
    PROVE  ReadInv'
<1> DEFINE r == [unit[u] EXCEPT !.state = "deactivating"]
<1>1. /\ unit' = [unit EXCEPT ![u] = r]
      /\ UNCHANGED <<now, offset, stepped, linked, file, phase, began, reads>>
  BY DEF Stop
<1>2. now \in Nat /\ unit \in [Units -> UnitRecord] /\ unit[u] \in UnitRecord
  BY DEF ReadInv, TypeOK
<1>3. r \in UnitRecord /\ r.start = unit[u].start /\ r.state = "deactivating"
  BY <1>2 DEF UnitRecord, UnitStates
<1> HIDE DEF r
<1>4. TypeOK'
  BY <1>1, <1>2, <1>3 DEF ReadInv, TypeOK
<1>5. \A w \in Units : /\ unit'[w].start = unit[w].start
                       /\ unit'[w] = unit[w] \/ unit'[w].state = "deactivating"
  BY <1>1, <1>2, <1>3
<1>6. ClockInv' /\ StartInv'
  BY <1>1, <1>5 DEF ReadInv, ClockInv, StartInv
<1>7. FileInv'
  BY <1>1, <1>5 DEF ReadInv, FileInv, Alive, Units
<1>8. UnitsReadInv' /\ MinerReadInv' /\ FileReadInv'
  BY <1>1, <1>5 DEF ReadInv, UnitsReadInv, MinerReadInv, FileReadInv, Since, SeenStart, Units
<1> QED
  BY <1>4, <1>6, <1>7, <1>8 DEF ReadInv

\* A process is gone, and with it the file of its own directory; a descriptor that is
\* open keeps what was in it.
LEMMA GoneStep ==
    ASSUME ReadInv, NEW u \in Units, Gone(u)
    PROVE  ReadInv'
<1> DEFINE r == [unit[u] EXCEPT !.state = IF @ = "active" THEN "activating" ELSE "inactive"]
           f == [reads.file EXCEPT !.attached = FALSE]
<1>1. /\ unit' = [unit EXCEPT ![u] = r]
      /\ UNCHANGED <<now, offset, stepped, linked, phase, began>>
  BY DEF Gone
<1>2. /\ now \in Nat /\ unit \in [Units -> UnitRecord] /\ unit[u] \in UnitRecord /\ TypeOK
      /\ file \in FileRecord
      /\ reads \in [units : UnitsReads, miner : MinerReads, file : FileReads]
  BY DEF ReadInv, TypeOK
<1>3. r \in UnitRecord /\ r.start = unit[u].start
  BY <1>2 DEF UnitRecord, UnitStates
<1>4. \/ file' = file /\ ~(u = "p2pool" /\ linked)
      \/ file' = NoFile
  BY DEF Gone
<1>5. \/ reads' = reads
      \/ reads.file.st = "open" /\ reads' = [reads EXCEPT !.file = f]
  BY DEF Gone
<1>6. reads.file.st = "open" =>
        /\ f \in FileReads
        /\ f.st = "open" /\ f.ws = reads.file.ws /\ f.wt = reads.file.wt
        /\ f.mtime = reads.file.mtime /\ f.live = reads.file.live
  BY <1>2, ReadValues DEF FileReads
<1> HIDE DEF r, f
<1>7. reads' \in [units : UnitsReads, miner : MinerReads, file : FileReads]
  BY <1>2, <1>5, <1>6
<1>8. TypeOK'
  BY <1>1, <1>2, <1>3, <1>4, <1>7, ReadTypes DEF TypeOK
<1>9. \A w \in Units : unit'[w].start = unit[w].start /\ (w # u => unit'[w] = unit[w])
  BY <1>1, <1>2, <1>3
<1>10. ClockInv' /\ StartInv'
  BY <1>1, <1>9 DEF ReadInv, ClockInv, StartInv
<1>11. FileInv'
  <2>1. CASE file' = NoFile
    BY <1>1, <1>2, <2>1 DEF FileInv, NoFile
  <2>2. CASE file' = file /\ ~(u = "p2pool" /\ linked)
    <3>1. linked => unit'["p2pool"] = unit["p2pool"]
      BY <1>9, <2>2 DEF Units
    <3> QED
      BY <1>1, <2>2, <3>1 DEF ReadInv, FileInv, Alive
  <2> QED
    BY <1>4, <2>1, <2>2
<1>12. UnitsReadInv' /\ MinerReadInv'
  BY <1>1, <1>2, <1>5, <1>9 DEF ReadInv, UnitsReadInv, MinerReadInv
<1>13. FileReadInv'
  <2>1. reads'.units = reads.units
    BY <1>2, <1>5
  <2> QED
    BY <1>1, <1>2, <1>5, <1>6, <1>9, <2>1 DEF ReadInv, FileReadInv, Since, SeenStart, Units
<1> QED
  BY <1>8, <1>10, <1>11, <1>12, <1>13 DEF ReadInv

\* P2Pool writes its file: a reader that has it open finds the new content under the
\* time stamp it has already read, which can only be older.
LEMMA WriteStep == ReadInv /\ WriteFile => ReadInv'
<1> SUFFICES ASSUME ReadInv, WriteFile PROVE ReadInv'
  OBVIOUS
<1> DEFINE s == unit["p2pool"].start
<1>1. PICK z \in ZMQWritten, up \in Carried("file") :
        /\ file' = [exists |-> TRUE, mtime |-> Wall, wt |-> now, ws |-> s, up |-> up, zmq |-> z]
        /\ reads' = IF reads.file.st = "open" /\ reads.file.attached
                    THEN [reads EXCEPT !.file.wt = now, !.file.zmq = z, !.file.up = up,
                                       !.file.ws = s]
                    ELSE reads
  BY DEF WriteFile
<1>2. Alive("p2pool") /\ UNCHANGED <<now, offset, stepped, unit, linked, phase, began>>
  BY DEF WriteFile
<1>3. /\ now \in Nat /\ offset \in Int /\ TypeOK
      /\ reads \in [units : UnitsReads, miner : MinerReads, file : FileReads]
      /\ z \in Nullable /\ up \in BOOLEAN /\ Wall \in Int
  <2>1. up \in BOOLEAN
    BY DEF Carried
  <2> QED
    BY <2>1, CollectorAssumption DEF ReadInv, TypeOK, Wall
<1>4. s \in Nat /\ s <= now
  BY Values DEF ReadInv, StartInv, Units
<1>5. file' \in FileRecord
  BY <1>1, <1>3, <1>4 DEF FileRecord
<1> DEFINE f == [[[[reads.file EXCEPT !.wt = now] EXCEPT !.zmq = z] EXCEPT !.up = up] EXCEPT !.ws = s]
<1>6. \/ reads' = reads
      \/ reads.file.st = "open" /\ reads' = [reads EXCEPT !.file = f]
  BY <1>1, <1>3
<1>7. reads.file.st = "open" =>
        /\ f \in FileReads
        /\ f.st = "open" /\ f.ws = s /\ f.wt = now
        /\ f.mtime = reads.file.mtime /\ f.live = reads.file.live
  BY <1>3, <1>4, ReadValues DEF FileReads
<1> HIDE DEF f
<1>8. TypeOK'
  BY <1>2, <1>3, <1>5, <1>6, <1>7 DEF TypeOK
<1>9. ClockInv' /\ StartInv'
  BY <1>2 DEF ReadInv, ClockInv, StartInv
<1>10. FileInv'
  <2>1. file'.ws = s /\ file'.wt = now /\ file'.mtime = Wall
    BY <1>1
  <2>2. ~stepped => Wall = now
    BY <1>3 DEF ReadInv, ClockInv, Wall
  <2> QED
    BY <1>2, <1>3, <1>4, <2>1, <2>2 DEF FileInv, Alive
<1>11. UnitsReadInv' /\ MinerReadInv'
  BY <1>2, <1>3, <1>6 DEF ReadInv, UnitsReadInv, MinerReadInv
<1>12. FileReadInv'
  <2>1. CASE reads' = reads
    BY <1>2, <2>1 DEF ReadInv, FileReadInv, Since, SeenStart
  <2>2. CASE reads.file.st = "open" /\ reads' = [reads EXCEPT !.file = f]
    <3>1. reads'.file = f
      BY <1>3, <2>2
    <3>2. ~stepped => reads.file.mtime <= now
      BY <1>3, <2>2, ReadValues DEF ReadInv, FileReadInv
    <3>3. linked => reads.file.live
      BY <2>2 DEF ReadInv, FileReadInv
    <3>4. /\ f.ws >= unit["p2pool"].start
          /\ reads.units.st = "seen" => f.ws >= SeenStart("p2pool")
      BY <1>3, <1>4, <1>7, <2>2, ReadValues DEF ReadInv, UnitsReadInv, SeenStart, Units
    <3>5. reads'.units = reads.units
      BY <1>3, <2>2
    <3> QED
      BY <1>2, <1>3, <1>4, <1>7, <2>2, <3>1, <3>2, <3>3, <3>4, <3>5 DEF FileReadInv, Since, SeenStart
  <2> QED
    BY <1>6, <2>1, <2>2
<1> QED
  BY <1>8, <1>9, <1>10, <1>11, <1>12 DEF ReadInv

\* A collection begins with nothing read.
LEMMA BeginStep == ReadInv /\ Begin => ReadInv'
<1> SUFFICES ASSUME ReadInv, Begin PROVE ReadInv'
  OBVIOUS
<1>1. reads' = Unread /\ phase' = "reading" /\ began' = now /\ UNCHANGED worldVars
  BY DEF Begin
<1>2. TypeOK'
  BY <1>1, ReadTypes DEF ReadInv, TypeOK, worldVars
<1>3. ClockInv' /\ StartInv' /\ FileInv'
  BY <1>1 DEF ReadInv, TypeOK, ClockInv, StartInv, FileInv, Alive, worldVars
<1>4. UnitsReadInv' /\ MinerReadInv' /\ FileReadInv'
  BY <1>1 DEF UnitsReadInv, MinerReadInv, FileReadInv, Unread
<1> QED
  BY <1>2, <1>3, <1>4 DEF ReadInv

\* systemctl shows the units as they are.
LEMMA ReadUnitsStep == ReadInv /\ ReadUnits => ReadInv'
<1> SUFFICES ASSUME ReadInv, ReadUnits PROVE ReadInv'
  OBVIOUS
<1>1. UNCHANGED <<worldVars, phase, began>>
  BY DEF ReadUnits
<1>2. PICK r : /\ r = [st |-> "seen", unit |-> unit] \/ r = [st |-> "failed"]
               /\ reads' = [reads EXCEPT !.units = r]
  BY DEF ReadUnits
<1>3. /\ unit \in [Units -> UnitRecord] /\ TypeOK
      /\ reads \in [units : UnitsReads, miner : MinerReads, file : FileReads]
  BY DEF ReadInv, TypeOK
<1>4. r \in UnitsReads
  BY <1>2, <1>3 DEF UnitsReads
<1>5. r.st = "seen" => r.unit = unit
  BY <1>2
<1>6. reads'.units = r /\ reads'.miner = reads.miner /\ reads'.file = reads.file
  BY <1>2, <1>3
<1>7. TypeOK'
  BY <1>1, <1>2, <1>3, <1>4 DEF TypeOK, worldVars
<1>8. ClockInv' /\ StartInv' /\ FileInv'
  BY <1>1 DEF ReadInv, ClockInv, StartInv, FileInv, Alive, worldVars
<1>9. UnitsReadInv'
  BY <1>1, <1>3, <1>5, <1>6, Values DEF ReadInv, UnitsReadInv, worldVars
<1>10. MinerReadInv' /\ FileReadInv'
  BY <1>1, <1>5, <1>6 DEF ReadInv, MinerReadInv, FileReadInv, Since, SeenStart, worldVars
<1> QED
  BY <1>7, <1>8, <1>9, <1>10 DEF ReadInv

\* Whoever answers for the API had started before it answers.
LEMMA ReadMinerStep == ReadInv /\ ReadMiner => ReadInv'
<1> SUFFICES ASSUME ReadInv, ReadMiner PROVE ReadInv'
  OBVIOUS
<1>1. UNCHANGED <<worldVars, phase, began>>
  BY DEF ReadMiner
<1>2. /\ now \in Nat /\ now >= 1 /\ TypeOK
      /\ reads \in [units : UnitsReads, miner : MinerReads, file : FileReads]
      /\ unit["xmrig"].start \in Nat /\ unit["xmrig"].start <= now
  BY Values DEF ReadInv, TypeOK, ClockInv, StartInv, Units
<1>3. PICK r : /\ \/ \E e \in BOOLEAN, b \in {unit["xmrig"].start, 1}, up \in BOOLEAN :
                        r = [st |-> "answered", expected |-> e, at |-> now, start |-> b, up |-> up]
                  \/ r = [st |-> "down"]
               /\ reads' = [reads EXCEPT !.miner = r]
  BY DEF ReadMiner, Carried
<1>4. r \in MinerReads /\ (r.st = "answered" => r.start <= r.at /\ r.at <= now)
  <2>1. CASE r = [st |-> "down"]
    BY <2>1 DEF MinerReads
  <2>2. ASSUME NEW e \in BOOLEAN, NEW b \in {unit["xmrig"].start, 1}, NEW up \in BOOLEAN,
               r = [st |-> "answered", expected |-> e, at |-> now, start |-> b, up |-> up]
        PROVE  r \in MinerReads /\ (r.st = "answered" => r.start <= r.at /\ r.at <= now)
    BY <1>2, <2>2 DEF MinerReads
  <2> QED
    BY <1>3, <2>1, <2>2
<1>5. reads'.units = reads.units /\ reads'.miner = r /\ reads'.file = reads.file
  BY <1>2, <1>3
<1>6. TypeOK'
  BY <1>1, <1>2, <1>3, <1>4 DEF TypeOK, worldVars
<1>7. ClockInv' /\ StartInv' /\ FileInv'
  BY <1>1 DEF ReadInv, ClockInv, StartInv, FileInv, Alive, worldVars
<1>8. MinerReadInv'
  BY <1>1, <1>4, <1>5 DEF MinerReadInv, worldVars
<1>9. UnitsReadInv' /\ FileReadInv'
  BY <1>1, <1>5 DEF ReadInv, UnitsReadInv, FileReadInv, Since, SeenStart, worldVars
<1> QED
  BY <1>6, <1>7, <1>8, <1>9 DEF ReadInv

\* The file is opened as it is on disk.
LEMMA OpenFileStep == ReadInv /\ OpenFile => ReadInv'
<1> SUFFICES ASSUME ReadInv, OpenFile PROVE ReadInv'
  OBVIOUS
<1> DEFINE live == Alive("p2pool") /\ file.ws = unit["p2pool"].start
           open == [st |-> "open", attached |-> TRUE, mtime |-> file.mtime, wt |-> file.wt,
                    ws |-> file.ws, up |-> file.up, zmq |-> file.zmq, live |-> live]
<1>1. UNCHANGED <<worldVars, phase, began>>
  BY DEF OpenFile
<1>2. PICK r : /\ (r = open /\ file.exists) \/ r = [st |-> "failed"]
               /\ reads' = [reads EXCEPT !.file = r]
  BY DEF OpenFile
<1>3. /\ TypeOK
      /\ reads \in [units : UnitsReads, miner : MinerReads, file : FileReads]
  BY DEF ReadInv, TypeOK
<1>4. live \in BOOLEAN
  OBVIOUS
<1>5. /\ file.exists /\ linked => live
      /\ live => file.ws = unit["p2pool"].start
  BY DEF ReadInv, FileInv
<1> HIDE DEF live
<1>6. /\ r \in FileReads
      /\ r.st \in {"open", "read"} =>
            r.ws = file.ws /\ r.wt = file.wt /\ r.mtime = file.mtime /\ r.live = live /\ file.exists
  <2>1. CASE r = open /\ file.exists
    <3>1. open \in FileReads
      BY <1>3, <1>4, Values DEF FileReads
    <3>2. open.ws = file.ws /\ open.wt = file.wt /\ open.mtime = file.mtime /\ open.live = live
      OBVIOUS
    <3> QED
      BY <2>1, <3>1, <3>2
  <2>2. CASE r = [st |-> "failed"]
    BY <2>2 DEF FileReads
  <2> QED
    BY <1>2, <2>1, <2>2
<1>7. reads'.units = reads.units /\ reads'.miner = reads.miner /\ reads'.file = r
  BY <1>2, <1>3
<1>8. TypeOK'
  BY <1>1, <1>2, <1>3, <1>6 DEF TypeOK, worldVars
<1>9. ClockInv' /\ StartInv' /\ FileInv'
  BY <1>1 DEF ReadInv, ClockInv, StartInv, FileInv, Alive, worldVars
<1>10. FileReadInv'
  <2>1. /\ live => file.ws >= unit["p2pool"].start
        /\ live /\ reads.units.st = "seen" => file.ws >= SeenStart("p2pool")
    BY <1>3, <1>5, Values, ReadValues DEF ReadInv, UnitsReadInv, SeenStart, Units
  <2> QED
    BY <1>1, <1>5, <1>6, <1>7, <2>1
       DEF ReadInv, FileInv, FileReadInv, Since, SeenStart, worldVars
<1>11. UnitsReadInv' /\ MinerReadInv'
  BY <1>1, <1>7 DEF ReadInv, UnitsReadInv, MinerReadInv, worldVars
<1> QED
  BY <1>8, <1>9, <1>10, <1>11 DEF ReadInv

\* Reading the content changes nothing of what is known of it.
LEMMA ReadContentStep == ReadInv /\ ReadContent => ReadInv'
<1> SUFFICES ASSUME ReadInv, ReadContent PROVE ReadInv'
  OBVIOUS
<1> DEFINE r == [reads.file EXCEPT !.st = "read"]
<1>1. /\ reads.file.st = "open" /\ reads' = [reads EXCEPT !.file = r]
      /\ UNCHANGED <<worldVars, phase, began>>
  BY DEF ReadContent
<1>2. /\ TypeOK
      /\ reads \in [units : UnitsReads, miner : MinerReads, file : FileReads]
  BY DEF ReadInv, TypeOK
<1>3. /\ r \in FileReads
      /\ r.ws = reads.file.ws /\ r.wt = reads.file.wt /\ r.mtime = reads.file.mtime
      /\ r.live = reads.file.live
  BY <1>1, <1>2, ReadValues DEF FileReads
<1> HIDE DEF r
<1>4. reads'.units = reads.units /\ reads'.miner = reads.miner /\ reads'.file = r
  BY <1>1, <1>2
<1>5. TypeOK'
  BY <1>1, <1>2, <1>3 DEF TypeOK, worldVars
<1>6. ClockInv' /\ StartInv' /\ FileInv'
  BY <1>1 DEF ReadInv, ClockInv, StartInv, FileInv, Alive, worldVars
<1>7. FileReadInv'
  BY <1>1, <1>3, <1>4 DEF ReadInv, FileReadInv, Since, SeenStart, worldVars
<1>8. UnitsReadInv' /\ MinerReadInv'
  BY <1>1, <1>4 DEF ReadInv, UnitsReadInv, MinerReadInv, worldVars
<1> QED
  BY <1>5, <1>6, <1>7, <1>8 DEF ReadInv

\* What the reads found stays dated.
LEMMA ReadStep == ReadInv /\ [Next]_vars => ReadInv'
<1> SUFFICES ASSUME ReadInv, [Next]_vars PROVE ReadInv'
  OBVIOUS
<1>1. ASSUME NEW u \in Units, Start(u) \/ Stop(u) \/ Gone(u) PROVE ReadInv'
  BY <1>1, StartStep, StopStep, GoneStep
<1>2. CASE World
  BY <1>1, <1>2, TickStep, ClockStepStep, WriteStep DEF World
<1>3. CASE Finish
  BY <1>3 DEF Finish, ReadInv, TypeOK, ClockInv, StartInv, FileInv, Alive, UnitsReadInv,
              MinerReadInv, FileReadInv, Since, SeenStart, worldVars
<1>4. CASE UNCHANGED vars
  BY <1>4 DEF vars, ReadInv, TypeOK, ClockInv, StartInv, FileInv, Alive, UnitsReadInv,
              MinerReadInv, FileReadInv, Since, SeenStart, worldVars
<1> QED
  BY <1>2, <1>3, <1>4, BeginStep, ReadUnitsStep, ReadMinerStep, OpenFileStep, ReadContentStep
     DEF Next

\* Nothing moves while a snapshot is looked at.
LEMMA SnapStep == SnapInv /\ [Next]_vars => SnapInv'
<1> SUFFICES ASSUME SnapInv, [Next]_vars PROVE SnapInv'
  OBVIOUS
<1> DEFINE made == [at |-> now, level |-> Level(Snapshot(reads)),
                    xmrig |-> MinerSource(reads), p2p |-> FileSource(reads),
                    age |-> IF reads.file.st = "failed" THEN Null ELSE AgeOf(reads.file)]
<1>1. UNCHANGED <<worldVars, reads>> => made' = made /\ Ended(reads)' = Ended(reads)
  BY DEF worldVars, Snapshot, MinerSource, FileSource, Service, UptimeOf, AgeOf, Wall, Linked,
         SessionCode, ZMQAge, Ended
<1>2. CASE Finish
  BY <1>1, <1>2 DEF Finish, SnapInv
<1>3. CASE UNCHANGED vars
  BY <1>1, <1>3 DEF vars, SnapInv, Done
<1>4. CASE World
  <2>1. phase # "done" /\ phase' = phase
    BY <1>4 DEF World, Tick, ClockStep, WriteFile, Start, Stop, Gone
  <2> QED
    BY <2>1 DEF SnapInv, Done
<1>5. CASE Begin \/ ReadUnits \/ ReadMiner \/ OpenFile \/ ReadContent
  <2>1. phase' = "reading"
    BY <1>5 DEF Begin, ReadUnits, ReadMiner, OpenFile, ReadContent
  <2> QED
    BY <2>1 DEF SnapInv, Done
<1> QED
  BY <1>2, <1>3, <1>4, <1>5 DEF Next

\* Every read is dated, and every snapshot is what Finish made of the reads.
LEMMA InvCorrect == Spec => []CollectInv
<1>1. CollectInv /\ [Next]_vars => CollectInv'
  BY ReadStep, SnapStep DEF CollectInv
<1> QED
  BY <1>1, InvInit, PTL DEF Spec

-----------------------------------------------------------------------------
(* What a snapshot says. *)

\* The limits are numbers.
LEMMA Limits ==
    /\ Grain \in Nat \ {0} /\ Tolerance \in Nat
    /\ P2PStaleAfter \in Nat /\ ClockSkewMax \in Nat
BY CollectorAssumption

\* A source without an error code was read.
LEMMA OkFields ==
    ASSUME NEW src, Ok(src)
    PROVE  src.state = "ok" /\ src.code = ""
BY DEF Ok

\* Dropping the fraction of a second takes less than a second.
LEMMA WholeLemma ==
    ASSUME NEW t \in Nat
    PROVE  Whole(t) \in Int /\ Whole(t) <= t /\ t - (Grain - 1) <= Whole(t)
<1>1. t % Grain \in 0 .. Grain - 1
  BY Limits
<1> QED
  BY <1>1, Limits DEF Whole

\* The fields of a snapshot.
LEMMA SnapFields ==
    ASSUME SnapInv, Done
    PROVE  /\ Ended(reads) /\ snap.at = now /\ snap.level = Level(Snapshot(reads))
           /\ snap.xmrig = MinerSource(reads) /\ snap.p2p = FileSource(reads)
           /\ snap.age = IF reads.file.st = "failed" THEN Null ELSE AgeOf(reads.file)
<1>1. snap = [at |-> now, level |-> Level(Snapshot(reads)),
              xmrig |-> MinerSource(reads), p2p |-> FileSource(reads),
              age |-> IF reads.file.st = "failed" THEN Null ELSE AgeOf(reads.file)]
  BY DEF SnapInv
<1>2. Ended(reads)
  BY DEF SnapInv
<1> QED
  BY <1>1, <1>2

\* A known uptime is that of a unit that systemd reported active.
LEMMA UptimeLemma ==
    ASSUME ReadInv, NEW u \in Units
    PROVE  LET up == UptimeOf(Service(reads, u))
           IN  /\ up # Null => SeenActive(u) /\ up = now - SeenStart(u)
               /\ SeenActive(u) => Service(reads, u) = reads.units.unit[u]
               /\ SeenActive(u) => SeenStart(u) \in Nat /\ SeenStart(u) <= now
               /\ up \in Int
<1>1. now \in Nat /\ TypeOK /\ UnitsReadInv /\ StartInv /\ unit[u].start \in Nat
  BY Values DEF ReadInv, TypeOK
<1>2. CASE reads.units.st = "seen"
  <2>1. Service(reads, u) = reads.units.unit[u]
    BY <1>2 DEF Service
  <2>2. reads.units.unit[u].start \in Nat /\ reads.units.unit[u].start <= now
    BY <1>1, <1>2, ReadValues DEF UnitsReadInv, StartInv
  <2> QED
    BY <1>1, <1>2, <2>1, <2>2 DEF UptimeOf, SeenActive, SeenStart, Null
<1>3. CASE reads.units.st # "seen"
  <2>1. Service(reads, u).state = ""
    BY <1>3 DEF Service, Unseen
  <2>2. UptimeOf(Service(reads, u)) = Null /\ ~SeenActive(u)
    BY <1>3, <2>1 DEF UptimeOf, SeenActive
  <2> QED
    BY <2>2 DEF Null
<1> QED
  BY <1>2, <1>3

\* An answer that was compared is that of the unit's process, or of one of its age.
LEMMA MinerClose ==
    ASSUME CollectInv, Done, Ok(snap.xmrig), SeenActive("xmrig")
    PROVE  MinerIsClose
<1> DEFINE up  == UptimeOf(Service(reads, "xmrig"))
           api == Whole(reads.miner.at - reads.miner.start)
<1>1. ReadInv /\ SnapInv /\ "xmrig" \in Units /\ now \in Nat /\ TypeOK
  BY DEF CollectInv, ReadInv, TypeOK, Units
<1>2. Ended(reads) /\ snap.at = now /\ MinerSource(reads) = [state |-> "ok", code |-> ""]
  BY <1>1, SnapFields DEF Ok
<1>3. reads.miner.st = "answered"
  <2>1. reads.miner.st # "down"
    BY <1>2 DEF MinerSource
  <2> QED
    BY <1>2, <2>1 DEF Ended
<1>4. Service(reads, "xmrig").state = "active"
  BY <1>1, UptimeLemma DEF SeenActive
<1>5. reads.miner.expected /\ up # Null /\ ~Disagrees(up, api)
  BY <1>2, <1>3, <1>4 DEF MinerSource
<1>6. /\ reads.miner.at \in Nat /\ reads.miner.start \in Nat /\ reads.miner.at <= now
      /\ reads.miner.start <= reads.miner.at
  BY <1>1, <1>3, ReadValues DEF ReadInv, MinerReadInv
<1>7. up = now - SeenStart("xmrig") /\ SeenStart("xmrig") \in Nat
  BY <1>1, <1>5, UptimeLemma
<1> DEFINE d == reads.miner.at - reads.miner.start
<1>8. d \in Nat /\ api \in Int /\ api <= d /\ d - (Grain - 1) <= api
  BY <1>6, WholeLemma
<1> HIDE DEF up, api
<1>9. up - api <= Tolerance /\ up - api >= -Tolerance
  BY <1>5, <1>7, <1>8, <1>1, Limits DEF Disagrees
<1>10. Waited = now - reads.miner.at
  BY <1>2 DEF Waited
<1>11. /\ reads.miner.start - SeenStart("xmrig") \in Int
       /\ reads.miner.start - SeenStart("xmrig") <= Tolerance - Waited
       /\ -(Tolerance + Waited + Grain - 1) <= reads.miner.start - SeenStart("xmrig")
       /\ Waited \in Int
  BY <1>1, <1>6, <1>7, <1>8, <1>9, <1>10, Limits
<1> QED
  BY <1>5, <1>11, Limits DEF MinerIsClose

\* DATA-08: an answer without an error code, of a unit seen active, comes from a process
\* that started when the unit's did, for every tolerance and whoever owns the port.
THEOREM MinerCorrect == Spec => []MinerMatchesUnit
<1>1. CollectInv => MinerMatchesUnit
  BY MinerClose DEF MinerMatchesUnit
<1> QED
  BY <1>1, InvCorrect, PTL

\* The unit's own process is accused only after a wait of about the tolerance.
THEOREM NoAlarmCorrect == Spec => []NoFalseMinerAlarm
<1>1. CollectInv => NoFalseMinerAlarm
  <2> SUFFICES ASSUME CollectInv, Done, snap.xmrig.code = "SOURCE_NOT_CURRENT_SESSION",
                      reads.miner.start = SeenStart("xmrig")
               PROVE  Waited + Grain - 1 > Tolerance
    BY DEF NoFalseMinerAlarm
  <2> DEFINE up  == UptimeOf(Service(reads, "xmrig"))
             d   == reads.miner.at - reads.miner.start
             api == Whole(d)
  <2>1. ReadInv /\ SnapInv /\ "xmrig" \in Units /\ now \in Nat /\ TypeOK
    BY DEF CollectInv, ReadInv, TypeOK, Units
  <2>2. Ended(reads) /\ snap.at = now /\ MinerSource(reads).code = "SOURCE_NOT_CURRENT_SESSION"
    BY <2>1, SnapFields
  <2>3. reads.miner.st = "answered"
    <3>1. reads.miner.st # "down"
      BY <2>2 DEF MinerSource
    <3> QED
      BY <2>2, <3>1 DEF Ended
  <2>4. up # Null /\ Disagrees(up, api)
    BY <2>2, <2>3 DEF MinerSource
  <2>5. /\ reads.miner.at \in Nat /\ reads.miner.start \in Nat /\ reads.miner.at <= now
        /\ reads.miner.start <= reads.miner.at
    BY <2>1, <2>3, ReadValues DEF ReadInv, MinerReadInv
  <2>6. up = now - reads.miner.start
    BY <2>1, <2>4, UptimeLemma
  <2>7. d \in Nat /\ api \in Int /\ api <= d /\ d - (Grain - 1) <= api
    BY <2>5, WholeLemma
  <2> HIDE DEF up, api
  <2>8. up - api > Tolerance
    BY <2>1, <2>4, <2>5, <2>6, <2>7, Limits DEF Disagrees
  <2> QED
    BY <2>1, <2>2, <2>5, <2>6, <2>7, <2>8, Limits DEF Waited
<1> QED
  BY <1>1, InvCorrect, PTL

\* A file that was read, and the age it was given: never negative, and without a step of
\* the clock not less than the time since it was written.
LEMMA FileAge ==
    ASSUME CollectInv, Done, snap.p2p.state # "unavailable"
    PROVE  /\ reads.file.st = "read" /\ FileReadInv
           /\ reads.file.wt \in Nat /\ reads.file.ws \in Nat /\ reads.file.zmq \in Nullable
           /\ snap.at = now /\ now \in Nat
           /\ AgeOf(reads.file) \in Nullable
           /\ ~stepped => AgeOf(reads.file) # Null /\ AgeOf(reads.file) >= TrueAge
<1>1. ReadInv /\ SnapInv /\ TypeOK /\ ClockInv /\ FileReadInv
  BY DEF CollectInv, ReadInv
<1>2. Ended(reads) /\ snap.at = now /\ snap.p2p = FileSource(reads)
  BY <1>1, SnapFields
<1>3. reads.file.st = "read"
  <2>1. reads.file.st # "failed"
    BY <1>2 DEF FileSource
  <2> QED
    BY <1>2, <2>1 DEF Ended
<1>4. /\ reads.file.wt \in Nat /\ reads.file.ws \in Nat /\ reads.file.zmq \in Nullable
      /\ reads.file.mtime \in Int
  BY <1>1, <1>3, ReadValues
<1>5. now \in Nat /\ offset \in Int /\ Wall \in Int
  BY <1>1 DEF TypeOK, Wall
<1>6. AgeOf(reads.file) \in Nullable
  BY <1>4, <1>5, Limits DEF AgeOf, Nullable, Null
<1>7. ASSUME ~stepped PROVE AgeOf(reads.file) # Null /\ AgeOf(reads.file) >= TrueAge
  <2>1. Wall = now /\ reads.file.mtime <= reads.file.wt /\ reads.file.wt <= now
    BY <1>1, <1>3, <1>5, <1>7 DEF ClockInv, FileReadInv, Wall
  <2>2. AgeOf(reads.file) = now - reads.file.mtime
    BY <1>4, <1>5, <2>1, Limits DEF AgeOf
  <2> QED
    BY <1>2, <1>4, <1>5, <2>1, <2>2 DEF TrueAge, Null
<1> QED
  BY <1>1, <1>2, <1>3, <1>4, <1>5, <1>6, <1>7

\* A file that confirms the unit: fresh, in the unit's own directory and so of a writer
\* that was alive, and of a session not older than the unit's if it carries an uptime.
LEMMA Confirmed ==
    ASSUME CollectInv, Done, Ok(snap.p2p)
    PROVE  /\ SeenActive("p2pool") /\ FileIsLive
           /\ AgeOf(reads.file) # Null /\ AgeOf(reads.file) <= P2PStaleAfter
<1> DEFINE up   == UptimeOf(Service(reads, "p2pool"))
           age  == AgeOf(reads.file)
           d    == reads.file.wt - reads.file.ws
<1>1. ReadInv /\ SnapInv /\ "p2pool" \in Units
  BY DEF CollectInv, Units
<1>2. FileSource(reads) = [state |-> "ok", code |-> ""] /\ snap.p2p.state = "ok"
  BY <1>1, SnapFields, OkFields DEF Ok
<1>3. /\ reads.file.st = "read" /\ FileReadInv /\ now \in Nat /\ snap.at = now
      /\ reads.file.wt \in Nat /\ reads.file.ws \in Nat
      /\ age \in Nullable /\ (~stepped => age # Null /\ age >= TrueAge)
  BY <1>2, FileAge
<1>4. age # Null /\ ~(age > P2PStaleAfter) /\ SessionCode(reads, age) = ""
  BY <1>2, <1>3 DEF FileSource
<1>5. up # Null /\ (reads.file.up => ~Exceeds(Whole(d), age, up)) /\ linked
  BY <1>4 DEF SessionCode, Linked
<1>6. /\ SeenActive("p2pool") /\ up = now - SeenStart("p2pool")
      /\ SeenStart("p2pool") \in Nat /\ SeenStart("p2pool") <= now
  BY <1>1, <1>5, UptimeLemma
<1>7. /\ reads.file.live /\ reads.file.ws <= reads.file.wt
      /\ reads.file.ws >= SeenStart("p2pool") \/ SeenStart("p2pool") >= began
  BY <1>3, <1>5, <1>6 DEF FileReadInv, Since, SeenActive
<1>8. d \in Nat /\ Whole(d) \in Int /\ d - (Grain - 1) <= Whole(d)
  BY <1>3, <1>7, WholeLemma
<1> HIDE DEF up, age
<1>9. age \in Nat /\ age <= P2PStaleAfter
  <2>1. age \in Nullable /\ age # Null /\ ~(age > P2PStaleAfter)
    BY <1>3, <1>4
  <2>2. age \in Nat
    BY <2>1 DEF Nullable
  <2> QED
    BY <2>1, <2>2, Limits
<1>10. reads.file.up => Whole(d) + age <= up + Tolerance
  BY <1>3, <1>5, <1>6, <1>8, <1>9, Limits DEF Exceeds
<1>11. reads.file.up /\ ~stepped => reads.file.ws - SeenStart("p2pool") >= -(Tolerance + Grain - 1)
  BY <1>3, <1>6, <1>8, <1>9, <1>10, Limits DEF TrueAge
<1> QED
  BY <1>4, <1>6, <1>7, <1>9, <1>11 DEF FileIsLive, age

\* DATA-08: local/p2p confirms a unit only if its writer was alive when it was opened, and
\* was not started before the unit's process unless the unit was restarted during the
\* collection; with an uptime, by no more than the tolerance.
THEOREM LiveCorrect == Spec => []ConfirmedFileIsLive
<1>1. CollectInv => ConfirmedFileIsLive
  BY Confirmed DEF ConfirmedFileIsLive
<1> QED
  BY <1>1, InvCorrect, PTL

\* DATA-06: what is not called stale was written within P2PStaleAfter.
THEOREM FreshCorrect == Spec => []FreshIsFresh
<1>1. CollectInv => FreshIsFresh
  <2> SUFFICES ASSUME CollectInv, Done, snap.p2p.state = "ok", ~stepped
               PROVE  TrueAge <= P2PStaleAfter
    BY DEF FreshIsFresh
  <2>1. FileSource(reads).state = "ok"
    BY SnapFields DEF CollectInv
  <2>2. /\ AgeOf(reads.file) # Null /\ AgeOf(reads.file) >= TrueAge
        /\ AgeOf(reads.file) \in Nullable /\ reads.file.st = "read"
        /\ TrueAge \in Int
    BY FileAge DEF TrueAge
  <2>3. ~(AgeOf(reads.file) > P2PStaleAfter)
    BY <2>1, <2>2 DEF FileSource
  <2> QED
    BY <2>2, <2>3, Limits DEF Nullable, Null
<1> QED
  BY <1>1, InvCorrect, PTL

\* A confirmed file has an age to dereference, whatever the clock did.
THEOREM AgeCorrect == Spec => []ConfirmedHasAge
<1>1. CollectInv => ConfirmedHasAge
  <2> SUFFICES ASSUME CollectInv, Done, Ok(snap.p2p) PROVE snap.age \in Nat
    BY DEF ConfirmedHasAge
  <2>1. snap.p2p.state = "ok"
    BY OkFields
  <2>2. reads.file.st = "read" /\ AgeOf(reads.file) \in Nullable /\ AgeOf(reads.file) # Null
    BY <2>1, FileAge, Confirmed
  <2>3. snap.age = AgeOf(reads.file)
    BY <2>2, SnapFields DEF CollectInv
  <2> QED
    BY <2>2, <2>3 DEF Nullable
<1> QED
  BY <1>1, InvCorrect, PTL

-----------------------------------------------------------------------------
(* The level. *)

\* A level is `ok' only of two running units, and only if no rule has left a mark.
LEMMA LevelOk ==
    ASSUME NEW s, Level(s) = "ok"
    PROVE  /\ s.systemd = "ok" /\ \A u \in Units : s.unit[u].active = "active"
           /\ XMRigSourceMark(s) \notin {"degraded", "unknown"}
           /\ P2PTrusted(s) /\ MarkZMQ(s.p2p.zmqAge) = "none"
<1>1. s.systemd = "ok" /\ (\A u \in Units : Active(s, u)) /\ RuntimeLevel(s) = "ok"
  <2>1. s.systemd = "ok" /\ ~Broken(s)
    BY DEF Level
  <2> QED
    BY <2>1 DEF Level
<1>2. \A level, mark : Absorb(level, mark) = "ok" => level = "ok" /\ mark \notin {"degraded", "unknown"}
  BY DEF Absorb
<1>3. P2PLevel(s, XMRigLevel(s, "ok")) = "ok"
  BY <1>1 DEF RuntimeLevel
<1>4. XMRigLevel(s, "ok") = "ok" /\ P2PTrusted(s) /\ MarkZMQ(s.p2p.zmqAge) \notin {"degraded", "unknown"}
  <2>1. CASE P2PTrusted(s)
    BY <1>2, <1>3, <2>1 DEF P2PLevel
  <2>2. CASE ~P2PTrusted(s)
    <3>1. P2PSourceMark(s) \notin {"degraded", "unknown"}
      BY <1>2, <1>3, <2>2 DEF P2PLevel
    <3> QED
      BY <2>2, <3>1 DEF P2PSourceMark, P2PTrusted
  <2> QED
    BY <2>1, <2>2
<1>5. XMRigSourceMark(s) \notin {"degraded", "unknown"}
  <2>1. CASE XMRigTrusted(s)
    BY <2>1 DEF XMRigTrusted
  <2>2. CASE ~XMRigTrusted(s)
    BY <1>2, <1>4, <2>2 DEF XMRigLevel
  <2> QED
    BY <2>1, <2>2
<1> QED
  BY <1>1, <1>4, <1>5 DEF Active, MarkZMQ

\* `ok' is honest: at one moment of the collection both units were active, the API spoke
\* for such a process of the miner, and the file was that of a live P2Pool, recently
\* written, ZMQ included.
THEOREM HonestCorrect == Spec => []OkIsHonest
<1>1. CollectInv => OkIsHonest
  <2> SUFFICES ASSUME CollectInv, Done, snap.level = "ok"
               PROVE  /\ \A u \in Units : SeenActive(u)
                      /\ MinerIsClose
                      /\ FileIsLive
                      /\ ~stepped => /\ TrueAge <= P2PStaleAfter
                                     /\ reads.file.zmq \in 0 .. ZMQOldAfter - TrueAge
    BY DEF OkIsHonest
  <2> DEFINE s == Snapshot(reads)
  <2>1. /\ Level(s) = "ok"
        /\ snap.xmrig = MinerSource(reads) /\ snap.p2p = FileSource(reads) /\ snap.at = now
    BY SnapFields DEF CollectInv
  <2>2. /\ s.systemd = IF reads.units.st = "seen" THEN "ok" ELSE "unavailable"
        /\ \A u \in Units : s.unit[u].active = Service(reads, u).state
        /\ s.xmrig.src = MinerSource(reads) /\ s.p2p.src = FileSource(reads)
        /\ s.p2p.zmqAge = ZMQAge(reads)
    BY DEF Snapshot
  <2> HIDE DEF s
  <2>3. \A u \in Units : SeenActive(u)
    BY <2>1, <2>2, LevelOk DEF SeenActive, Service
  <2>4. Ok(snap.xmrig)
    <3>1. /\ MinerSource(reads).state = "ok"
          /\ MinerSource(reads).code \notin {"SOURCE_ID_MISMATCH", "SOURCE_NOT_CURRENT_SESSION",
                                             "SOURCE_SESSION_UNKNOWN"}
      BY <2>1, <2>2, LevelOk DEF XMRigSourceMark
    <3>2. reads.miner.st # "down"
      BY <3>1 DEF MinerSource
    <3>3. MinerSource(reads).code \in {"SOURCE_ID_MISMATCH", "SOURCE_NOT_CURRENT_SESSION",
                                       "SOURCE_SESSION_UNKNOWN", ""}
      BY <3>2 DEF MinerSource
    <3>4. MinerSource(reads) = [state |-> "ok", code |-> ""]
      BY <3>1, <3>2, <3>3 DEF MinerSource
    <3> QED
      BY <2>1, <3>4 DEF Ok
  <2>5. Ok(snap.p2p)
    <3>1. FileSource(reads).state = "ok" /\ FileSource(reads).code = ""
      BY <2>1, <2>2, LevelOk DEF P2PTrusted, P2PSourceMark
    <3>2. FileSource(reads) = [state |-> "ok", code |-> ""]
      BY <3>1 DEF FileSource
    <3> QED
      BY <2>1, <3>2 DEF Ok
  <2>6. MinerIsClose
    BY <2>3, <2>4, MinerClose DEF Units
  <2>7. FileIsLive /\ AgeOf(reads.file) # Null /\ AgeOf(reads.file) <= P2PStaleAfter
    BY <2>5, Confirmed
  <2>8. /\ reads.file.st = "read" /\ reads.file.zmq \in Nullable
        /\ AgeOf(reads.file) \in Nullable /\ TrueAge \in Int
        /\ ~stepped => AgeOf(reads.file) >= TrueAge
    <3>1. snap.p2p.state # "unavailable"
      BY <2>5, OkFields
    <3>2. /\ reads.file.st = "read" /\ reads.file.zmq \in Nullable /\ reads.file.wt \in Nat
          /\ snap.at = now /\ now \in Nat
          /\ AgeOf(reads.file) \in Nullable /\ (~stepped => AgeOf(reads.file) >= TrueAge)
      BY <3>1, FileAge
    <3> QED
      BY <3>2 DEF TrueAge
  <2>9. ZMQAge(reads) # Null /\ ~(ZMQAge(reads) > ZMQOldAfter)
    BY <2>1, <2>2, LevelOk DEF MarkZMQ
  <2>10. reads.file.zmq \in Nat /\ reads.file.zmq + AgeOf(reads.file) <= ZMQOldAfter
    BY <2>7, <2>8, <2>9, LimitsAssumption DEF ZMQAge, Nullable, Null
  <2>11. ~stepped => TrueAge <= P2PStaleAfter /\ reads.file.zmq \in 0 .. ZMQOldAfter - TrueAge
    BY <2>7, <2>8, <2>10, LimitsAssumption, Limits DEF Nullable, Null
  <2> QED
    BY <2>3, <2>6, <2>7, <2>11
<1> QED
  BY <1>1, InvCorrect, PTL
==============================================================================
