-------------------------------- MODULE Fields --------------------------------
(***************************************************************************)
(* Reading the fields of JSON that other programs write: jsonx, Parse of   *)
(* internal/xmrig/xmrig.go, how applyXMRig (internal/status/collect.go)    *)
(* identifies the miner, and the expected_id that internal/config lets     *)
(* through.                                                                *)
(*                                                                         *)
(* A value is a record with its kind; objects and arrays have `members', a *)
(* function on names, an array's being "[0]", "[1]" and so on.  `whole'    *)
(* tells a number written as ParseInt takes it from 5.0 or 1e3; MaxInt and *)
(* MaxFloat stand for the ranges of int64 and float64.  XMRig is external: *)
(* from one answer to the next it changes any one field into any value.    *)
(*                                                                         *)
(* An operator named after another with a suffix (ElementMissing) is a     *)
(* slip the code could have had, kept to show that a property notices.     *)
(***************************************************************************)
EXTENDS Integers, Sequences, SequencesExt

CONSTANTS
    Variants,           \* what a field may turn into
    MaxEdits,           \* bound: answers after the first
    Texts, Printable,   \* the texts there are; those of 1 to 128 printable characters
    MaxInt, MaxFloat,
    Nil

JNull        == [kind |-> "null"]
Text(t)      == [kind |-> "text", text |-> t]
Number(n, w) == [kind |-> "number", number |-> n, whole |-> w]
Array(f)     == [kind |-> "array", members |-> f]
Object(f)    == [kind |-> "object", members |-> f]

\* A value, and what is directly inside.
IsJSON(v) ==
    /\ v.kind = "null" => v = JNull
    /\ v.kind = "text" => v.text \in Texts /\ v = Text(v.text)
    /\ v.kind = "number" => v.number \in Int /\ v = Number(v.number, v.whole)
    /\ v.kind \in {"array", "object"} =>
          v = [kind |-> v.kind, members |-> [k \in DOMAIN v.members |-> v.members[k]]]

Inside(v) ==
    IF v.kind \in {"array", "object"} THEN {v.members[k] : k \in DOMAIN v.members} ELSE {}

ASSUME FieldsAssumption ==
    /\ MaxEdits \in Nat /\ MaxInt \in Nat /\ MaxFloat \in Nat
    /\ Printable \subseteq Texts \ {""} /\ {"", "6", "mine", "p"} \subseteq Texts
    /\ Nil \notin Int \cup Texts
    /\ \A v \in Variants : /\ IsJSON(v)
                          /\ \A w \in Inside(v) : IsJSON(w) /\ \A x \in Inside(w) : IsJSON(x)

VARIABLES
    expected,   \* expected_id
    body,       \* the answer of the API
    edits,      \* how often it changed
    summary     \* what Parse makes of it

fieldsVars == <<expected, body, edits, summary>>

-----------------------------------------------------------------------------
(* jsonx.  A result is a value at its path, or a FieldError.               *)

Found(v, p)  == [ok |-> TRUE, value |-> v, path |-> p, missing |-> FALSE]
Wrong(p)     == [ok |-> FALSE, value |-> JNull, path |-> p, missing |-> FALSE]
Missing(p)   == [ok |-> FALSE, value |-> JNull, path |-> p, missing |-> TRUE]

Lacks(v, k)  == k \notin DOMAIN v.members \/ v.members[k].kind = "null"

Into(r, k) ==
    LET p == Append(r.path, k) IN
    IF ~r.ok THEN r
    ELSE IF r.value.kind # "object" THEN Wrong(p)
    ELSE IF Lacks(r.value, k) THEN Missing(p)
    ELSE Found(r.value.members[k], p)

\* The loop over the path.
Walk(o, path) ==
    LET r[n \in 0 .. Len(path)] == IF n = 0 THEN Found(o, <<>>) ELSE Into(r[n - 1], path[n])
    IN  r[Len(path)]

ElementMissing(r, k) ==
    IF ~r.ok THEN r
    ELSE IF r.value.kind # "array" \/ Lacks(r.value, k) THEN Missing(Append(r.path, k))
    ELSE Found(r.value.members[k], Append(r.path, k))

Element(r, k) ==
    IF ~r.ok THEN r
    ELSE IF r.value.kind # "array" THEN Wrong(r.path)
    ELSE IF Lacks(r.value, k) THEN Missing(Append(r.path, k))
    ELSE Found(r.value.members[k], Append(r.path, k))

IsText(v)  == v.kind = "text"
IsInt(v)   == v.kind = "number" /\ v.whole /\ v.number \in 0 .. MaxInt
IsFloat(v) == v.kind = "number" /\ v.number >= 0 /\ v.number <= MaxFloat

Is(v, type) == \/ type = "text" /\ IsText(v)
               \/ type = "int" /\ IsInt(v)
               \/ type = "float" /\ IsFloat(v)

Kept(r, type) == IF ~r.ok \/ Is(r.value, type) THEN r ELSE Wrong(r.path)

String(o, path)     == Kept(Walk(o, path), "text")
IntAtPath(o, path)  == Kept(Walk(o, path), "int")
FloatAt(o, path, k) == Kept(Element(Walk(o, path), k), "float")
IntAt(o, path, k)   == Kept(Element(Walk(o, path), k), "int")

-----------------------------------------------------------------------------
(* xmrig.Parse *)

Reads(o) == [
    version        |-> String(o, <<"version">>),
    id             |-> String(o, <<"id">>),
    uptime         |-> IntAtPath(o, <<"uptime">>),
    hashrate10s    |-> FloatAt(o, <<"hashrate", "total">>, "[0]"),
    hashrate60s    |-> FloatAt(o, <<"hashrate", "total">>, "[1]"),
    hashrate15m    |-> FloatAt(o, <<"hashrate", "total">>, "[2]"),
    pagesAllocated |-> IntAt(o, <<"hugepages">>, "[0]"),
    pagesTotal     |-> IntAt(o, <<"hugepages">>, "[1]"),
    good           |-> IntAtPath(o, <<"results", "shares_good">>),
    total          |-> IntAtPath(o, <<"results", "shares_total">>),
    pool           |-> String(o, <<"connection", "pool">>),
    connected      |-> IntAtPath(o, <<"connection", "uptime_ms">>)]

ValueOf(r) == IF ~r.ok THEN Nil ELSE IF IsText(r.value) THEN r.value.text ELSE r.value.number

Rejected(good, total) == IF Nil \in {good, total} \/ total < good THEN Nil ELSE total - good

Notes(reads) ==
    {reads[f].path : f \in {g \in DOMAIN reads : ~reads[g].ok /\ ~reads[g].missing}} \cup
    IF /\ reads.good.ok /\ reads.total.ok
       /\ reads.total.value.number < reads.good.value.number
    THEN {<<"results", "shares_total">>} ELSE {}

SummaryOf(o) ==
    LET reads == Reads(o)
        value == [f \in DOMAIN reads |-> ValueOf(reads[f])] IN
    [value |-> value, rejected |-> Rejected(value.good, value.total), invalid |-> Notes(reads)]

-----------------------------------------------------------------------------
(* What status makes of it. *)

ValidIDUnchecked(id) == id \in Printable \cup {""}

\* config.validate: an expected_id is not empty.
ValidID(id) == id \in Printable

\* Parse leaves an id that it cannot read empty.
Identified == (IF summary.value.id = Nil THEN "" ELSE summary.value.id) = expected

-----------------------------------------------------------------------------
(* The other programs. *)

Indices == {"[0]", "[1]", "[2]"}

\* An answer of a miner that works.
Sample == Object([
    version    |-> Text("6"),
    id         |-> Text("mine"),
    uptime     |-> Number(1, TRUE),
    hashrate   |-> Object([total |-> Array([i \in Indices |-> Number(3, FALSE)])]),
    hugepages  |-> Array([i \in {"[0]", "[1]"} |-> Number(2, TRUE)]),
    results    |-> Object([shares_good |-> Number(2, TRUE), shares_total |-> Number(3, TRUE)]),
    connection |-> Object([pool |-> Text("p"), uptime_ms |-> Number(1, TRUE)])])

\* Where the fields are.
Place == [
    version        |-> <<"version">>,
    id             |-> <<"id">>,
    uptime         |-> <<"uptime">>,
    hashrate10s    |-> <<"hashrate", "total", "[0]">>,
    hashrate60s    |-> <<"hashrate", "total", "[1]">>,
    hashrate15m    |-> <<"hashrate", "total", "[2]">>,
    pagesAllocated |-> <<"hugepages", "[0]">>,
    pagesTotal     |-> <<"hugepages", "[1]">>,
    good           |-> <<"results", "shares_good">>,
    total          |-> <<"results", "shares_total">>,
    pool           |-> <<"connection", "pool">>,
    connected      |-> <<"connection", "uptime_ms">>]

Places == UNION {Prefixes(Place[f]) \ {<<>>} : f \in DOMAIN Place}

Holds(v, k) == v.kind = (IF k \in Indices THEN "array" ELSE "object")

Member(v, k) == IF Holds(v, k) /\ k \in DOMAIN v.members THEN v.members[k] ELSE JNull

Get(v, path) ==
    LET g[n \in 0 .. Len(path)] == IF n = 0 THEN v ELSE Member(g[n - 1], path[n])
    IN  g[Len(path)]

With(v, k, new) ==
    [v EXCEPT !.members =
        [j \in DOMAIN v.members \cup {k} |-> IF j = k THEN new ELSE v.members[j]]]

\* From the end of the path to its beginning.
Put(v, path, new) ==
    LET parent(n) == Get(v, SubSeq(path, 1, Len(path) - n))
        p[n \in 0 .. Len(path)] ==
            IF n = 0 THEN new ELSE With(parent(n), path[Len(path) - n + 1], p[n - 1])
    IN  p[Len(path)]

FieldsInit ==
    /\ expected \in {id \in Texts : ValidID(id)}
    /\ body = Sample /\ edits = 0 /\ summary = SummaryOf(Sample)

Answer ==
    /\ edits < MaxEdits
    /\ \E path \in Places, v \in Variants :
          /\ Holds(Get(body, Front(path)), Last(path))
          /\ body' = Put(body, path, v)
    /\ edits' = edits + 1
    /\ summary' = SummaryOf(body')
    /\ UNCHANGED expected

FieldsNext == Answer

FieldsSpec == FieldsInit /\ [][FieldsNext]_fieldsVars

-----------------------------------------------------------------------------
(* Properties. *)

\* How far a path can be followed.
Deepest(v, path) ==
    LET there == {q \in Prefixes(path) : Get(v, q) # JNull}
    IN  CHOOSE q \in there : \A r \in there : Len(r) <= Len(q)

\* A result that is not there is reported as FIELD_INVALID exactly if what is
\* there, as far as its path can be followed, is of the wrong type or range:
\* nothing wrong is lost in silence, and nothing absent is reported.
WrongIsReported ==
    \A f \in DOMAIN summary.value : summary.value[f] = Nil =>
        LET there == Deepest(body, Place[f])
        IN  (\E p \in summary.invalid : IsPrefix(p, Place[f]))
                <=> there = Place[f] \/ ~Holds(Get(body, there), Place[f][Len(there) + 1])

\* A miner passes as ours only if its answer holds the id of the
\* configuration: not one whose id is missing or of another type.
OnlyOwnMiner == Identified => Get(body, <<"id">>) = Text(expected)
=============================================================================
