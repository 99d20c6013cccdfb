------------------------------- MODULE MCInputs -------------------------------
(***************************************************************************)
(* What moneroid takes from outside, one input at a time: the answers of   *)
(* the candidate nodes, the params file, a file of the Data API, the lines *)
(* of the journal, the replies of a proxy, the fields of an answer in JSON.  *)
(* The six readers share no state; `input' says which of them runs.        *)
(***************************************************************************)
EXTENDS NodeProbe, ParamsFile, DataApiRead, Journal, Socks5, Fields

CONSTANTS n1, a4, b4, a6

VARIABLE input

Init ==
    /\ input \in {"nodes", "params", "file", "journal", "proxy", "fields"}
    /\ ProbeInit /\ ParamsInit /\ ReadInit /\ JournalInit /\ SocksInit /\ FieldsInit
    /\ input # "file" => kind = "regular"
    /\ input # "fields" => expected = "mine"

Next ==
    \/ /\ input = "nodes" /\ ProbeNext
       /\ UNCHANGED <<input, fieldsVars, paramsVars, readVars, journalVars, socksVars>>
    \/ /\ input = "params" /\ ParamsNext
       /\ UNCHANGED <<input, fieldsVars, probeVars, readVars, journalVars, socksVars>>
    \/ /\ input = "file" /\ ReadNext
       /\ UNCHANGED <<input, fieldsVars, probeVars, paramsVars, journalVars, socksVars>>
    \/ /\ input = "journal" /\ JournalNext
       /\ UNCHANGED <<input, fieldsVars, probeVars, paramsVars, readVars, socksVars>>
    \/ /\ input = "proxy" /\ SocksNext
       /\ UNCHANGED <<input, fieldsVars, probeVars, paramsVars, readVars, journalVars>>
    \/ /\ input = "fields" /\ FieldsNext
       /\ UNCHANGED <<input, probeVars, paramsVars, readVars, journalVars, socksVars>>

Spec == Init /\ [][Next]_<<input, probeVars, paramsVars, readVars, journalVars, socksVars, fieldsVars>>

-----------------------------------------------------------------------------
(* Bounds. *)

\* A name with up to two addresses, in either order, and two addresses.
ThreeHosts   == <<n1, b4, a6>>
SomeAnswers  == <<{<<a4>>, <<a4, a6>>, <<a6, a4>>}, {}, {}>>

TwoValues    == {"old", "bad"}
OneValue     == {"new", "old"}

Payout(w, f) == [whole |-> w, frac |-> f]
SomeEntries  == {Without, Unknown, Payout(0, 3), Payout(3, 1)}

SomeTexts    == {"", "6", "mine", "other", "p", "q", "x"}
TwoIDs       == {"mine", "other"}
SomeVariants == {Number(n, TRUE) : n \in {-1, 0, 3, 10, 100}}
                \cup {Number(5, FALSE), Text("other"), Text(""), JNull,
                      Array([i \in {"[0]"} |-> Number(0, TRUE)]),
                      Object([total |-> Text("x"), pool |-> Text("q")])}
=============================================================================
