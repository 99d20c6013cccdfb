---------------------------- MODULE ParamsRegister ----------------------------
(***************************************************************************)
(* What `moneroid node select' promises of the params file (docs/spec.md,  *)
(* NODE-03), with no temporary file, no system call and no descriptor in   *)
(* it: a register that every reader finds whole, that a run replaces in    *)
(* one step or not at all, and that a loss of power returns to what it     *)
(* holds or to what was saved before.                                      *)
(*                                                                         *)
(* It promises no more than the code does: a writer puts back the other    *)
(* bytes as it read them, and what changed in between is undone.           *)
(***************************************************************************)
EXTENDS Naturals

CONSTANTS
    Writers,   \* the runs that may write
    Nodes,     \* what the file may point at
    Origin     \* what it points at first

VARIABLES
    value,     \* what a reader of the file finds
    saved,     \* what a loss of power may return it to
    holding    \* for each writer what it is about to write, or Nothing

registerVars == <<value, saved, holding>>

Values  == [node : Nodes, rest : Nat, readable : {TRUE}]
Nothing == [node |-> Origin, rest |-> 0, readable |-> FALSE]

RegisterInit ==
    /\ value = [node |-> Origin, rest |-> 0, readable |-> TRUE]
    /\ saved = value
    /\ holding = [w \in Writers |-> Nothing]

\* A writer decides on a node that the file does not point at, and keeps the rest.
Take(w) ==
    /\ holding[w] = Nothing
    /\ \E n \in Nodes \ {value.node} :
          holding' = [holding EXCEPT ![w] = [node |-> n, rest |-> value.rest, readable |-> TRUE]]
    /\ UNCHANGED <<value, saved>>

\* The only step by which a writer changes the file.
Put(w) ==
    /\ holding[w] \in Values
    /\ value' = holding[w]
    /\ holding' = [holding EXCEPT ![w] = Nothing]
    /\ UNCHANGED saved

GiveUp(w) ==
    /\ holding' = [holding EXCEPT ![w] = Nothing]
    /\ UNCHANGED <<value, saved>>

\* Someone edits the other bytes.
Change ==
    /\ value' = [node |-> value.node, rest |-> value.rest + 1, readable |-> TRUE]
    /\ UNCHANGED <<saved, holding>>

Save ==
    /\ saved' = value
    /\ UNCHANGED <<value, holding>>

\* A loss of power ends all writers too.
Restore ==
    /\ \E v \in {value, saved} : value' = v /\ saved' = v
    /\ holding' = [w \in Writers |-> Nothing]

RegisterNext ==
    \/ \E w \in Writers : Take(w) \/ Put(w) \/ GiveUp(w)
    \/ Change \/ Save \/ Restore

RegisterSpec == RegisterInit /\ [][RegisterNext]_registerVars
=============================================================================
