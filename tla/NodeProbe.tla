------------------------------ MODULE NodeProbe ------------------------------
(***************************************************************************)
(* Probing candidate nodes: resolve, Probe, probeAddr, ProbeAll and the    *)
(* choice of the dialer of internal/node/node.go, probeList and the choice *)
(* of nodeSelect (cmd/moneroid/node.go), and the check NODE_RPC of doctor  *)
(* on what they report.                                                    *)
(*                                                                         *)
(* The candidates are probed in parallel and share nothing, so one address *)
(* is probed in one step, whatever it answers; a result is what Result     *)
(* holds, and how the address was dialled.  Ports are left out.            *)
(*                                                                         *)
(* An operator named after another with a suffix (BetterLast) is a slip    *)
(* the code could have had, kept to show that a property notices.          *)
(***************************************************************************)
EXTENDS Naturals, FiniteSets, Sequences, SequencesExt

CONSTANTS
    Hosts,      \* the hosts of the candidates, in the order of nodes.txt
    Answers,    \* for each candidate what DNS may answer: sequences of addresses
    V4, V6,     \* the addresses; every other host is a name
    Private,    \* the addresses that are loopback, private or link-local
    Latencies,  \* milliseconds
    Heights,    \* heights that get_info may report, Null for none
    Proxies,    \* whether the params file may set socks5, a set of Booleans
    Readable,   \* whether it may be read, a set of Booleans
    Null

ASSUME ProbeAssumption ==
    /\ Hosts \in Seq(Range(Hosts)) \ {<<>>} /\ DOMAIN Answers = DOMAIN Hosts
    /\ \A c \in DOMAIN Hosts : Answers[c] \subseteq Seq(V4 \cup V6) \ {<<>>}
    /\ V4 \cap V6 = {} /\ Private \subseteq V4 \cup V6
    /\ Null \notin Nat \cup BOOLEAN /\ Latencies \subseteq Nat /\ Heights \subseteq Nat \cup {Null}
    /\ Proxies \subseteq BOOLEAN /\ Readable \subseteq BOOLEAN

Cands == DOMAIN Hosts

VARIABLES
    socks5,    \* the params file sets a proxy
    dialer,    \* the one the probes use: "direct" or "proxy", "none" before it is chosen
    addrs,     \* for each candidate its addresses, Null before resolution
    first,     \* for each candidate the result Probe reports if none is usable
    tried,     \* for each candidate the results of the addresses probed so far
    report,    \* for each candidate the result of Probe
    ranked,    \* the order of the results after ProbeAll
    chosen     \* what select makes of it: a host, or "exitCheck"

probeVars == <<socks5, dialer, addrs, first, tried, report, ranked, chosen>>

NoResult == [addr |-> Null, via |-> Null, latency |-> Null, sync |-> Null, height |-> Null,
             headers |-> Null, zmq |-> Null, error |-> "no address"]

ProbeInit ==
    /\ socks5 \in Proxies
    /\ dialer = "none"
    /\ addrs = [c \in Cands |-> Null]
    /\ first = [c \in Cands |-> NoResult]
    /\ report = [c \in Cands |-> NoResult]
    /\ tried = [c \in Cands |-> <<>>]
    /\ ranked = <<>>
    /\ chosen = Null

\* probeList: a params file that cannot be read counts as one without a proxy.
ChooseDialer ==
    /\ dialer = "none"
    /\ \E read \in Readable : dialer' = IF read /\ socks5 THEN "proxy" ELSE "direct"
    /\ UNCHANGED <<socks5, addrs, first, report, tried, ranked, chosen>>

\* Params.Dialer: like P2Pool, the host's own networks are not reached through the proxy.
Via(a) == IF a \in Private THEN "direct" ELSE dialer

-----------------------------------------------------------------------------
(* One address: get_info, a range of headers, the greeting of ZMQ. *)

Usable(r) == r.sync = TRUE /\ r.headers = TRUE /\ r.zmq = TRUE

AsksHeaders(h) == h # Null /\ h > 100

Unanswered(a) == [NoResult EXCEPT !.addr = a, !.via = Via(a), !.error = "get_info"]

\* Headers that are missing from an answer without an error leave no error.
AnsweredTimedLate(a, lat, sync, h, headers, zmq) ==
    [addr |-> a, via |-> Via(a), latency |-> IF AsksHeaders(h) THEN lat ELSE Null, sync |-> sync,
     height |-> h, headers |-> IF AsksHeaders(h) THEN headers = "there" ELSE Null, zmq |-> zmq,
     error |-> IF AsksHeaders(h) /\ headers = "error" THEN "headers" ELSE ""]

Answered(a, lat, sync, h, headers, zmq) ==
    [addr |-> a, via |-> Via(a), latency |-> lat, sync |-> sync, height |-> h,
     headers |-> IF AsksHeaders(h) THEN headers = "there" ELSE Null, zmq |-> zmq,
     error |-> IF AsksHeaders(h) /\ headers = "error" THEN "headers" ELSE ""]

Outcomes(a) ==
    {Unanswered(a)} \cup
    {Answered(a, lat, sync, h, headers, zmq) :
        lat \in Latencies, sync \in BOOLEAN, h \in Heights,
        headers \in {"there", "missing", "error"}, zmq \in BOOLEAN}

-----------------------------------------------------------------------------
(* One candidate *)

\* The loop of resolve over the answer of DNS.
Split(acc, a) == IF a \in V4 THEN [acc EXCEPT !.v4 = Append(@, a)]
                             ELSE [acc EXCEPT !.v6 = Append(@, a)]

Splits(answer) ==
    LET r[n \in 0 .. Len(answer)] ==
            IF n = 0 THEN [v4 |-> <<>>, v6 |-> <<>>] ELSE Split(r[n - 1], answer[n])
    IN  r

\* IPv4 first; a name stands for itself if it cannot be resolved, as an address does.
IPv4First(answer) == LET r == Splits(answer)[Len(answer)] IN r.v4 \o r.v6

Resolve(c) ==
    /\ dialer # "none" /\ addrs[c] = Null
    /\ \/ addrs' = [addrs EXCEPT ![c] = <<Hosts[c]>>]
       \/ /\ Hosts[c] \notin V4 \cup V6
          /\ \E answer \in Answers[c] : addrs' = [addrs EXCEPT ![c] = IPv4First(answer)]
    /\ UNCHANGED <<socks5, dialer, first, report, tried, ranked, chosen>>

BetterLast(old, new) == TRUE
Better(old, new) == old = NoResult \/ (old.latency = Null /\ new.latency # Null)

\* Probe ends at the first usable address, or with the last one.
ProbeAddr(c) ==
    /\ addrs[c] # Null /\ report[c] = NoResult
    /\ LET n == Len(tried[c]) + 1
       IN  \E r \in Outcomes(addrs[c][n]) :
              LET kept == IF Better(first[c], r) THEN r ELSE first[c]
              IN  /\ tried' = [tried EXCEPT ![c] = Append(@, r)]
                  /\ first' = [first EXCEPT ![c] = kept]
                  /\ report' = [report EXCEPT ![c] = IF Usable(r) THEN r
                                                     ELSE IF n = Len(addrs[c]) THEN kept ELSE @]
    /\ UNCHANGED <<socks5, dialer, addrs, ranked, chosen>>

-----------------------------------------------------------------------------
(* All candidates *)

\* A usable result comes before the others, and by latency; the sort is stable.
BeforeByLatency(r, s) == r.latency # Null /\ s.latency # Null /\ r.latency < s.latency
Before(r, s) == Usable(r) /\ (~Usable(s) \/ r.latency < s.latency)

\* What sort.SliceStable promises of the order it leaves.
Sorted(p) ==
    \A i, j \in Cands : i < j => \/ Before(report[p[i]], report[p[j]])
                                 \/ ~Before(report[p[j]], report[p[i]]) /\ p[i] < p[j]

Done(c) == report[c] # NoResult

\* After wg.Wait: the ranking, and what nodeSelect makes of it.
Choice(best) == IF Usable(best) THEN best.addr ELSE "exitCheck"

Rank ==
    /\ ranked = <<>> /\ \A c \in Cands : Done(c)
    /\ ranked' \in {p \in Bijection(Cands, Cands) : Sorted(p)}
    /\ chosen' = Choice(report[ranked'[1]])
    /\ UNCHANGED <<socks5, dialer, addrs, first, report, tried>>

ProbeNext == ChooseDialer \/ Rank \/ \E c \in Cands : Resolve(c) \/ ProbeAddr(c)

ProbeSpec == ProbeInit /\ [][ProbeNext]_probeVars

-----------------------------------------------------------------------------
(* doctor *)

\* NODE_RPC on the node that P2Pool uses; latency is dereferenced for a pass.
NodeRPC(r) == IF r.error # "" \/ r.sync # TRUE \/ r.zmq # TRUE THEN "warn" ELSE "pass"

-----------------------------------------------------------------------------
(* Properties. *)

\* What a result is worth to Probe.
Worth(r) == IF Usable(r) THEN 2 ELSE IF r.latency # Null THEN 1 ELSE 0

\* The comment of Probe: a candidate is reported by its first usable address, otherwise
\* by the first that answered get_info, otherwise by its first address; it is not given
\* up before every address was tried.
ReportedByBest ==
    \A c \in Cands : Done(c) =>
        /\ \E i \in DOMAIN tried[c] :
              /\ report[c] = tried[c][i]
              /\ \A j \in DOMAIN tried[c] :
                    /\ Worth(tried[c][j]) <= Worth(report[c])
                    /\ j < i => Worth(tried[c][j]) < Worth(report[c])
        /\ Usable(report[c]) \/ Len(tried[c]) = Len(addrs[c])

\* Where the code dereferences a latency (the ranking of usable results, the message of
\* NODE_RPC for a pass) there is one.
LatencyThere ==
    \A c \in Cands : Done(c) /\ (Usable(report[c]) \/ NodeRPC(report[c]) = "pass")
                             => report[c].latency # Null

\* NODE-02 and NODE-03: if any address of any candidate turned out usable, select takes
\* one that was, whose candidate no other usable one beats, and on equal terms the first
\* of the file, an IPv6 address only if no IPv4 address of its candidate can be used;
\* otherwise nothing is selected.
BestIsSelected ==
    chosen # Null =>
        LET good(c) == {i \in DOMAIN tried[c] : Usable(tried[c][i])}
            bad(c)  == {tried[c][i].addr : i \in DOMAIN tried[c] \ good(c)}
        IN  IF \A c \in Cands : good(c) = {} THEN chosen = "exitCheck"
            ELSE \E c \in Cands :
                    /\ \E i \in good(c) : chosen = tried[c][i].addr
                    /\ chosen \in V6 => V4 \cap Range(addrs[c]) \subseteq bad(c)
                    /\ \A d \in Cands \ {c} : good(d) # {} =>
                          \/ report[c].latency < report[d].latency
                          \/ report[c].latency = report[d].latency /\ c < d

\* NODE-02: if params_file sets socks5, the probe goes through that proxy, except to the
\* host's own networks.  (It does not when the file cannot be read.)
ProbedThroughProxy ==
    socks5 => \A c \in Cands : \A i \in DOMAIN tried[c] :
                 tried[c][i].addr \notin Private => tried[c][i].via = "proxy"
=============================================================================
