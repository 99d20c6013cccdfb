----------------------------- MODULE DataApiRead -----------------------------
(***************************************************************************)
(* Reading one file of P2Pool's Data API while P2Pool rewrites it: Read    *)
(* and readOnce of internal/p2pool/p2pool.go.                              *)
(*                                                                         *)
(* P2Pool is external: it truncates the file and writes it again in place, *)
(* in two pieces, so that any point between two system calls of the reader *)
(* can fall between any two of the writer's; it may be killed half-way.    *)
(* A piece is the number of the rewrite that wrote it, 0 if it is missing. *)
(* One rewrite takes less than the 50 ms that the reader waits.            *)
(*                                                                         *)
(* An operator named after another with a suffix (PausedLongOver) is a     *)
(* slip the code could have had, kept to show that a property notices.     *)
(***************************************************************************)
EXTENDS Naturals

CONSTANTS
    MaxRewrites,  \* bound: rewrites
    FileKinds     \* what the path may lead to: a subset of AllKinds

AllKinds == {"regular", "missing", "denied", "large", "fifo"}

ASSUME ReadAssumption == MaxRewrites \in Nat /\ FileKinds \subseteq AllKinds

VARIABLES
    kind,      \* what the path leads to
    head, tail,\* the pieces of the file
    stamp,     \* the rewrite that changed the file last: its modification time
    writer,    \* "idle", "truncated", "half" or "killed"
    reader,    \* where Read is
    attempt,   \* 1 or 2
    waited,    \* the rewrite that was going on when the wait began, or 0
    got,       \* what readOnce has so far: modification time and pieces
    err,       \* File.Err
    start      \* history: the modification time when Read was called, 0 without a file

readVars == <<kind, head, tail, stamp, writer, reader, attempt, waited, got, err, start>>

NothingYet == [stamp |-> 0, head |-> 0, tail |-> 0]

\* The file is as the first rewrite left it, or not there yet.
ReadInit ==
    /\ kind \in FileKinds
    /\ stamp = IF kind = "missing" THEN 0 ELSE 1
    /\ head = stamp /\ tail = stamp
    /\ writer = "idle" /\ reader = "open"
    /\ attempt = 1 /\ waited = 0
    /\ got = NothingYet /\ err = "none" /\ start = stamp

-----------------------------------------------------------------------------
(* P2Pool, as long as the file is being read. *)

Truncate ==
    /\ kind \in {"regular", "missing"} /\ writer = "idle" /\ reader # "ended"
    /\ stamp < MaxRewrites
    /\ kind' = "regular" /\ head' = 0 /\ tail' = 0
    /\ stamp' = stamp + 1 /\ writer' = "truncated"
    /\ UNCHANGED <<reader, attempt, waited, got, err, start>>

WriteHead ==
    /\ writer = "truncated" /\ reader # "ended"
    /\ head' = stamp /\ writer' = "half"
    /\ UNCHANGED <<kind, tail, stamp, reader, attempt, waited, got, err, start>>

WriteTail ==
    /\ writer = "half" /\ reader # "ended"
    /\ tail' = stamp /\ writer' = "idle"
    /\ UNCHANGED <<kind, head, stamp, reader, attempt, waited, got, err, start>>

KillWriter ==
    /\ writer \in {"truncated", "half"} /\ reader # "ended"
    /\ writer' = "killed"
    /\ UNCHANGED <<kind, head, tail, stamp, reader, attempt, waited, got, err, start>>

Rewriting == IF writer \in {"truncated", "half"} THEN stamp ELSE 0

-----------------------------------------------------------------------------
(* Read *)

\* A first attempt is made again unless it worked or the error will stay.
RetriesNone(e) == FALSE
Retries(e) == attempt = 1 /\ e \notin {"none", "denied", "large", "fifo"}

End(e) ==
    /\ err' = e
    /\ reader' = IF Retries(e) THEN "wait" ELSE "ended"
    /\ waited' = IF Retries(e) THEN Rewriting ELSE 0
    /\ UNCHANGED <<kind, head, tail, stamp, writer, attempt, start>>

Continue(step) ==
    /\ reader' = step
    /\ UNCHANGED <<kind, head, tail, stamp, writer, attempt, waited, err, start>>

Open ==
    /\ reader = "open"
    /\ got' = NothingYet
    /\ IF kind \in {"missing", "denied"} THEN End(kind) ELSE Continue("stat")

Stat ==
    /\ reader = "stat"
    /\ got' = [got EXCEPT !.stamp = stamp]
    /\ IF kind \in {"large", "fifo"} THEN End(kind) ELSE Continue("head")

ReadHead ==
    /\ reader = "head"
    /\ got' = [got EXCEPT !.head = head]
    /\ IF head = 0 THEN End("empty") ELSE Continue("tail")

\* Two pieces of different rewrites may still decode as one object.
Decodes(h, t) == IF t = 0 THEN {"corrupt"} ELSE IF h = t THEN {"none"} ELSE {"none", "corrupt"}

ReadTailThenStat ==
    /\ reader = "tail"
    /\ got' = [got EXCEPT !.tail = tail, !.stamp = stamp]
    /\ \E e \in Decodes(got.head, tail) : End(e)

ReadTail ==
    /\ reader = "tail"
    /\ got' = [got EXCEPT !.tail = tail]
    /\ \E e \in Decodes(got.head, tail) : End(e)

\* 50 ms later the rewrite that was going on is over.
PausedLongOver == TRUE
PausedLong == waited = 0 \/ Rewriting # waited

Again ==
    /\ reader = "wait" /\ PausedLong
    /\ reader' = "open" /\ attempt' = 2 /\ waited' = 0
    /\ UNCHANGED <<kind, head, tail, stamp, writer, got, err, start>>

ReadNext == \/ Truncate \/ WriteHead \/ WriteTail \/ KillWriter
            \/ Open \/ Stat \/ ReadHead \/ ReadTail \/ Again

ReadSpec == ReadInit /\ [][ReadNext]_readVars

-----------------------------------------------------------------------------
(* Properties. *)

\* DATA-04, what the retry is for: a reader that comes across one rewrite of a file that
\* was there before gets the old content or the new; an error that the rewrite causes
\* takes a second one, or the end of P2Pool in the middle of it.
OneRewriteSurvived ==
    reader = "ended" /\ start > 0 /\ err \in {"missing", "empty", "corrupt"} =>
        stamp > start + 1 \/ writer = "killed"

\* DATA-06, the age of a file: what was accepted is complete, and nothing in it is older
\* than its modification time says, although the file changes between fstat and read.
NotOlderThanStamp ==
    reader = "ended" /\ err = "none" => got.head >= got.stamp /\ got.tail >= got.stamp
                                         /\ got.stamp > 0
=============================================================================
