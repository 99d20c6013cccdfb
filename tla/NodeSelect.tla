------------------------------ MODULE NodeSelect ------------------------------
(***************************************************************************)
(* moneroid node select: nodeSelect of cmd/moneroid/node.go and            *)
(* WriteAtomic of internal/node/node.go, several of them beside an editor  *)
(* of the same params file, kills at any step and losses of power.         *)
(*                                                                         *)
(* The content of the file is the node it points at and a version of all   *)
(* other bytes; ParamsFile says how Rewrite changes the one and keeps the  *)
(* other.  The file system is external: a rename is atomic, but until the  *)
(* directory is flushed a loss of power may undo it, and data that was not *)
(* synced may be lost from a file that was renamed.                        *)
(*                                                                         *)
(* An operator named after another with a suffix (SyncedSkipped) is a slip *)
(* the code could have had, kept to show that a property notices.          *)
(***************************************************************************)
EXTENDS Naturals, FiniteSets

CONSTANTS
    Runs,       \* the runs of `node select'
    DryRuns,    \* those with --dry-run
    Nodes,      \* candidates
    Origin,     \* the node the file points at first
    MaxEdits,   \* bound: edits of the other bytes
    Faults      \* a subset of {"call", "kill", "power"}

ASSUME NodeSelectAssumption ==
    /\ IsFiniteSet(Runs) /\ DryRuns \subseteq Runs
    /\ Origin \in Nodes
    /\ MaxEdits \in Nat
    /\ Faults \subseteq {"call", "kill", "power"}

VARIABLES
    conf,     \* params_file: content and attributes
    stable,   \* what the path leads to after a loss of power that undoes the renames
    temp,     \* for each run its temporary file, as long as it exists
    pc,       \* for each run where it is, and its exit
    best,     \* the node that was probed first
    updated   \* what Rewrite made of the content that was read

vars == <<conf, stable, temp, pc, best, updated>>

\* whole: nothing is missing; synced: the data is on the disk.
Contents == [node : Nodes, rest : Nat, whole : BOOLEAN]
Files    == [content : Contents, attr : {"service", "private"}, synced : BOOLEAN]

Empty  == [node |-> Origin, rest |-> 0, whole |-> FALSE]
NoFile == [content |-> Empty, attr |-> "none", synced |-> FALSE]

Steps == {"probe", "read", "create", "chown", "write", "sync", "rename"}
Ends  == {"exitOK", "exitCheck", "killed"}

TypeOK ==
    /\ conf \in Files /\ stable \in Files
    /\ temp \in [Runs -> Files \cup {NoFile}]
    /\ pc \in [Runs -> Steps \cup Ends]
    /\ best \in [Runs -> Nodes]
    /\ updated \in [Runs -> Contents]

Init ==
    /\ conf = [content |-> [node |-> Origin, rest |-> 0, whole |-> TRUE],
               attr |-> "service", synced |-> TRUE]
    /\ stable = conf
    /\ temp = [r \in Runs |-> NoFile]
    /\ pc = [r \in Runs |-> "probe"]
    /\ best = [r \in Runs |-> Origin]
    /\ updated = [r \in Runs |-> Empty]

-----------------------------------------------------------------------------
(* nodeSelect *)

At(r, step) == pc[r] = step
Goto(r, step) == pc' = [pc EXCEPT ![r] = step]

\* probeList: the first ranked node, or none is usable.
Probe(r) ==
    /\ At(r, "probe")
    /\ \/ /\ \E n \in Nodes : best' = [best EXCEPT ![r] = n]
          /\ Goto(r, "read")
       \/ /\ Goto(r, "exitCheck")
          /\ best' = best
    /\ UNCHANGED <<conf, stable, temp, updated>>

\* The file is read and rewritten; when nothing changes, or on a dry run, that is all.
Rewrite(old, n) == [old EXCEPT !.node = n]

StopsUnlessChanged(r, new) == new = conf.content
Stops(r, new) == new = conf.content \/ r \in DryRuns

ReadAndRewrite(r) ==
    /\ At(r, "read")
    /\ LET new == Rewrite(conf.content, best[r])
       IN  /\ updated' = [updated EXCEPT ![r] = new]
           /\ Goto(r, IF Stops(r, new) THEN "exitOK" ELSE "create")
    /\ UNCHANGED <<conf, stable, temp, best>>

-----------------------------------------------------------------------------
(* WriteAtomic.  A call that fails removes the temporary file. *)

RemovedNever(r) == temp[r]
Removed(r) == NoFile

Fail(r) ==
    /\ "call" \in Faults
    /\ pc[r] \in Steps \ {"probe"}
    /\ Goto(r, "exitCheck")
    /\ temp' = [temp EXCEPT ![r] = Removed(r)]
    /\ UNCHANGED <<conf, stable, best, updated>>

CreateTemp(r) ==
    /\ At(r, "create")
    /\ temp' = [temp EXCEPT ![r] = [content |-> Empty, attr |-> "private", synced |-> FALSE]]
    /\ Goto(r, "chown")
    /\ UNCHANGED <<conf, stable, best, updated>>

\* Chown and Chmod to what the file has.
AttrForgotten == "private"
Attr == conf.attr

Chown(r) ==
    /\ At(r, "chown")
    /\ temp' = [temp EXCEPT ![r].attr = Attr]
    /\ Goto(r, "write")
    /\ UNCHANGED <<conf, stable, best, updated>>

Write(r) ==
    /\ At(r, "write")
    /\ temp' = [temp EXCEPT ![r].content = updated[r]]
    /\ Goto(r, "sync")
    /\ UNCHANGED <<conf, stable, best, updated>>

SyncedSkipped == FALSE
Synced == TRUE

Sync(r) ==
    /\ At(r, "sync")
    /\ temp' = [temp EXCEPT ![r].synced = Synced]
    /\ Goto(r, "rename")
    /\ UNCHANGED <<conf, stable, best, updated>>

Rename(r) ==
    /\ At(r, "rename")
    /\ conf' = temp[r]
    /\ temp' = [temp EXCEPT ![r] = NoFile]
    /\ Goto(r, "exitOK")
    /\ UNCHANGED <<stable, best, updated>>

-----------------------------------------------------------------------------
(* Everything else. *)

\* No deferred call runs: the temporary file stays.
Kill(r) ==
    /\ "kill" \in Faults
    /\ pc[r] \in Steps
    /\ Goto(r, "killed")
    /\ UNCHANGED <<conf, stable, temp, best, updated>>

\* The operator changes other bytes, with an editor that writes as carefully.
Revised(c) == [c EXCEPT !.rest = @ + 1]

Edit ==
    /\ conf.content.rest < MaxEdits
    /\ conf' = [conf EXCEPT !.content = Revised(@), !.synced = TRUE]
    /\ UNCHANGED <<stable, temp, pc, best, updated>>

Flush ==
    /\ stable # conf
    /\ stable' = conf
    /\ UNCHANGED <<conf, temp, pc, best, updated>>

Survives(f) == IF f.synced THEN f ELSE [f EXCEPT !.content.whole = FALSE]

PowerLoss ==
    /\ "power" \in Faults
    /\ \E f \in {conf, stable} : conf' = Survives(f) /\ stable' = Survives(f)
    /\ pc' = [r \in Runs |-> IF pc[r] \in Steps THEN "killed" ELSE pc[r]]
    /\ UNCHANGED <<temp, best, updated>>

Run(r) == \/ Probe(r) \/ ReadAndRewrite(r) \/ Fail(r) \/ CreateTemp(r) \/ Chown(r)
          \/ Write(r) \/ Sync(r) \/ Rename(r)

Next == (\E r \in Runs : Run(r) \/ Kill(r)) \/ Edit \/ Flush \/ PowerLoss

Spec == Init /\ [][Next]_vars

-----------------------------------------------------------------------------
(* The mapping to the register of ParamsRegister: a reader finds the content of the   *)
(* file, and a real run holds what Rewrite made from when it began to write it.       *)

Writing == {"create", "chown", "write", "sync", "rename"}

Found(c, readable) == [node |-> c.node, rest |-> c.rest, readable |-> c.whole /\ readable]
FoundIn(f) == Found(f.content, f.attr = "service")
Held == [r \in Runs \ DryRuns |->
            Found(IF pc[r] \in Writing THEN updated[r] ELSE Empty, TRUE)]

Register == INSTANCE ParamsRegister
    WITH Writers <- Runs \ DryRuns, value <- FoundIn(conf), saved <- FoundIn(stable), holding <- Held

-----------------------------------------------------------------------------
(* Properties. *)

\* NODE-03 as one statement: for its readers the file is a register that a real run
\* replaces in one step by what it read with another node, or leaves alone; dry runs,
\* failures, kills and losses of power add no other step.
ImplementsRegister == Register!RegisterSpec

\* NODE-03, "the write is atomic": whenever P2Pool opens the file it finds a complete
\* one that it may read, after a kill, a failure or a loss of power at any step of any
\* of the runs.
FileIsWhole == conf.content.whole /\ conf.attr = "service"

\* The deferred Remove: a temporary file stays behind only after a kill or a loss of
\* power, never after a failed call or beside a finished run.
NoLitter ==
    \A r \in Runs : temp[r] # NoFile => pc[r] \in {"chown", "write", "sync", "rename", "killed"}

\* The file points only at the node it began with or at one that a real run probed and
\* wrote: never at that of a dry run, of a run that failed, or of one killed earlier.
NodeWasChosen ==
    conf.content.node # Origin =>
        \E r \in Runs \ DryRuns : best[r] = conf.content.node /\ pc[r] = "exitOK"
=============================================================================
