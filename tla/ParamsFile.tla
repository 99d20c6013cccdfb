------------------------------ MODULE ParamsFile ------------------------------
(***************************************************************************)
(* Reading and rewriting p2pool.conf: ReadParams, splitKV, Rewrite and     *)
(* Diff of internal/node/node.go, over every file of a few lines.          *)
(*                                                                         *)
(* A line is what splitKV makes of it: a key and a value, or a blank line; *)
(* "wallet" stands for every line of no interest, comments included.       *)
(* `plain' tells the form `key = value' that Rewrite writes from other     *)
(* spellings (quotes, spaces, a trailing comment).  A file is its lines,   *)
(* and whether the last one ends with a newline.                           *)
(*                                                                         *)
(* An operator named after another with a suffix (RepeatsKept) is a slip   *)
(* the code could have had, kept to show that a property notices.          *)
(***************************************************************************)
EXTENDS Integers, Sequences

CONSTANTS
    Values,    \* values a key may have in the file
    NewValues, \* values of the candidates that are selected
    MaxLines   \* bound: lines of a file

\* Atoi fails on "bad": such a port is ignored.
ASSUME ParamsAssumption == "bad" \notin NewValues /\ MaxLines \in Nat

NodeKeys == {"host", "rpc-port", "zmq-port"}
Settings == NodeKeys \cup {"socks5", "wallet"}

Blank == [key |-> "blank", val |-> "", plain |-> TRUE]
Lines == [key : Settings, val : Values, plain : BOOLEAN] \cup {Blank}

Plain(k, v) == [key |-> k, val |-> v, plain |-> TRUE]

Candidates == [NodeKeys -> NewValues]

VARIABLES
    file,     \* the params file
    node,     \* the node that is selected, or NoNode
    written   \* what Rewrite makes of the file

paramsVars == <<file, node, written>>

NoNode == [k \in NodeKeys |-> "none"]

ParamsInit ==
    /\ file = [lines |-> <<>>, eol |-> TRUE]
    /\ node = NoNode
    /\ written = file

\* Any file, one line longer at each step; a blank line ends with a newline.
AppendLine ==
    /\ node = NoNode
    /\ Len(file.lines) < MaxLines /\ file.eol
    /\ \E l \in Lines, e \in BOOLEAN :
          file' = [lines |-> Append(file.lines, l), eol |-> e \/ l = Blank]
    /\ written' = file'
    /\ UNCHANGED node

-----------------------------------------------------------------------------
(* ReadParams: the last line of a key counts, an absent one has a default. *)

IsPort(k) == k \in {"rpc-port", "zmq-port"}

Valid(l, k) == l.key = k /\ ~(IsPort(k) /\ l.val = "bad")

ReadKey(ls, k) ==
    LET at == {i \in 1 .. Len(ls) : Valid(ls[i], k)}
    IN  IF at = {} THEN "default" ELSE ls[CHOOSE i \in at : \A j \in at : j <= i].val

ReadParams(ls) == [k \in NodeKeys \cup {"socks5"} |-> ReadKey(ls, k)]

-----------------------------------------------------------------------------
(* Rewrite, line by line; `seen' are the node keys written so far. *)

RepeatsKept(acc, l) == FALSE
Repeats(acc, l) == l.key \in acc.seen

WriteLineTrimmed(acc, l, c) ==
    IF l = Blank THEN acc
    ELSE IF l.key \notin NodeKeys THEN [acc EXCEPT !.out = Append(@, l)]
    ELSE [acc EXCEPT !.out = Append(@, Plain(l.key, c[l.key])), !.seen = @ \cup {l.key}]

WriteLine(acc, l, c) ==
    IF l.key \notin NodeKeys THEN [acc EXCEPT !.out = Append(@, l), !.dropped = FALSE]
    ELSE IF Repeats(acc, l) THEN [acc EXCEPT !.dropped = TRUE]
    ELSE [out |-> Append(acc.out, Plain(l.key, c[l.key])),
          seen |-> acc.seen \cup {l.key}, dropped |-> FALSE]

\* The loop over the lines.
Rewritten(ls, c) ==
    LET r[n \in 0 .. Len(ls)] ==
            IF n = 0 THEN [out |-> <<>>, seen |-> {}, dropped |-> FALSE]
            ELSE WriteLine(r[n - 1], ls[n], c)
    IN  r

Replaced(ls, c) == Rewritten(ls, c)[Len(ls)]

AddMissing(f, k, seen, c) ==
    IF k \in seen THEN f ELSE [lines |-> Append(f.lines, Plain(k, c[k])), eol |-> TRUE]

\* A dropped last line leaves one before it that ends with a newline; so does an
\* appended key.
Rewrite(f, c) ==
    LET r    == Replaced(f.lines, c)
        kept == [lines |-> r.out, eol |-> f.eol \/ r.dropped]
        host == AddMissing(kept, "host", r.seen, c)
        rpc  == AddMissing(host, "rpc-port", r.seen, c)
    IN  AddMissing(rpc, "zmq-port", r.seen, c)

\* Diff compares by position, without the blank lines at the end; where one file has
\* no line, or a blank one, nothing is printed.
LineAt(ls, i) == IF i \in 1 .. Len(ls) THEN ls[i] ELSE Blank

DiffOfLength(old, new) == IF Len(old) = Len(new) THEN {} ELSE {Len(old)}
Diff(old, new) ==
    {i \in 1 .. Len(old) + Len(new) : LineAt(old, i) # LineAt(new, i)}

SelectNode ==
    /\ node = NoNode
    /\ \E c \in Candidates : node' = c /\ written' = Rewrite(file, c)
    /\ UNCHANGED file

ParamsNext == AppendLine \/ SelectNode

ParamsSpec == ParamsInit /\ [][ParamsNext]_paramsVars

-----------------------------------------------------------------------------
(* Properties. *)

\* The lines of no node key.
OtherLines(ls) ==
    LET o[n \in 0 .. Len(ls)] ==
            IF n = 0 THEN <<>>
            ELSE IF ls[n].key \in NodeKeys THEN o[n - 1] ELSE Append(o[n - 1], ls[n])
    IN  o

Others(ls) == OtherLines(ls)[Len(ls)]

\* NODE-03: what was written reads back as the selected node, by exactly one line of
\* each key (a second host line would be a failover host of P2Pool), whatever repeated,
\* missing, misspelt or unterminated lines the file had.
SwitchIsComplete ==
    node # NoNode =>
        \A k \in NodeKeys :
            /\ ReadParams(written.lines)[k] = node[k]
            /\ \E i \in DOMAIN written.lines :
                  \A j \in DOMAIN written.lines : written.lines[j].key = k <=> j = i

\* NODE-03: "exactly three keys": all other lines stay, in their order and spelling, and
\* the proxy of the next probe (socks5) with them.
OthersKept ==
    node # NoNode =>
        /\ Others(written.lines) = Others(file.lines)
        /\ ReadParams(written.lines)["socks5"] = ReadParams(file.lines)["socks5"]

\* nodeSelect skips the write when Diff is empty: it is so only if Rewrite changed
\* nothing, and a second selection of the same node always comes out so.
SkipsOnlyNothing ==
    node # NoNode =>
        /\ Diff(file.lines, written.lines) = {} => written = file
        /\ Rewrite(written, node) = written
=============================================================================
