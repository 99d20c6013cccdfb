------------------------------- MODULE Health --------------------------------
(***************************************************************************)
(* The health rules, internal/status/health.go: what Evaluate makes of a   *)
(* collected snapshot.  Pure operators: Collector applies them to what it  *)
(* read, HealthCheck to every snapshot of a bounded set.                   *)
(*                                                                         *)
(* A snapshot is a record                                                  *)
(*   systemd  state of the source "systemctl show"                         *)
(*   unit     for each unit its load and active state                      *)
(*   xmrig    source state and error code; connected and hashrate          *)
(*   p2p      source state and error code; connections, ZMQ age and the    *)
(*            highest peer height                                          *)
(*   height   the local sidechain height (pool/stats)                      *)
(*   events   what is wrong with the three event files (stratum, network   *)
(*            and pool), which no rule of Evaluate looks at                *)
(* A nullable number is a natural number or Null.  Messages, counters and  *)
(* values no rule looks at are left out.                                   *)
(***************************************************************************)
EXTENDS Integers

CONSTANTS
    SidechainLag,  \* blocks the sidechain may trail its peers (100)
    ZMQOldAfter    \* seconds without ZMQ activity (600)

ASSUME LimitsAssumption == SidechainLag \in Nat /\ ZMQOldAfter \in Nat

Null == -1
Nullable == Nat \cup {Null}

Units == {"p2pool", "xmrig"}

LoadStates   == {"loaded", "masked", "not-found", "error", "bad-setting"}
ActiveStates == {"active", "reloading", "inactive", "failed", "activating",
                 "deactivating", "maintenance"}

\* A source that could not be read has the error code of its state; one that could
\* may still carry a code about its session, its identity or the clock.
Unreadable == {"unavailable", "invalid", "permission_denied"}

XMRigCodes == {"", "SOURCE_ID_MISMATCH", "SOURCE_NOT_CURRENT_SESSION",
               "SOURCE_SESSION_UNKNOWN"}
P2PCodes   == {"", "SOURCE_NOT_CURRENT_SESSION", "SOURCE_SESSION_UNKNOWN",
               "CLOCK_UNCERTAIN"}

XMRigSources == [state : {"ok"}, code : XMRigCodes]
                    \cup [state : Unreadable, code : {"SOURCE_ERROR"}]
\* "skewed": one has a modification time in the future (its values are used all the
\* same); "unreadable": one could not be read.
EventFaults == {"skewed", "unreadable"}

P2PSources   == [state : {"ok"}, code : P2PCodes]
                    \cup [state : {"stale"}, code : {"SOURCE_STALE"}]
                    \cup [state : Unreadable, code : {"SOURCE_ERROR"}]

-----------------------------------------------------------------------------
(* Services. *)

Broken(s) == \E u \in Units : \/ s.unit[u].load \in {"not-found", "error", "bad-setting"}
                              \/ s.unit[u].active = "failed"

Inactive(s, u) == s.unit[u].active = "inactive"
Active(s, u)   == s.unit[u].active = "active"

Transitional(s, u) == s.unit[u].active \in {"activating", "deactivating", "reloading"}

-----------------------------------------------------------------------------
(* runtimeLevel: the closures degrade and unknown are applied in the order  *)
(* of the code.                                                             *)

AbsorbLast(level, mark) == IF mark = "none" THEN level ELSE mark
Absorb(level, mark) ==
    IF mark = "degraded" THEN "degraded"
    ELSE IF mark = "unknown" /\ level = "ok" THEN "unknown"
    ELSE level

\* A nullable value that must not be zero.
MarkPositive(v) == IF v = Null THEN "unknown" ELSE IF v = 0 THEN "degraded" ELSE "none"

XMRigSourceMark(s) ==
    IF s.xmrig.src.state # "ok" THEN "unknown"
    ELSE IF s.xmrig.src.code \in {"SOURCE_ID_MISMATCH", "SOURCE_NOT_CURRENT_SESSION"} THEN "degraded"
    ELSE IF s.xmrig.src.code = "SOURCE_SESSION_UNKNOWN" THEN "unknown"
    ELSE "none"

P2PSourceMark(s) ==
    IF s.p2p.src.state = "stale" THEN "degraded"
    ELSE IF s.p2p.src.state # "ok" THEN "unknown"
    ELSE IF s.p2p.src.code = "SOURCE_NOT_CURRENT_SESSION" THEN "degraded"
    ELSE IF s.p2p.src.code # "" THEN "unknown"
    ELSE "none"

\* The values of a source are judged only when the source itself raised no mark.
XMRigTrusted(s) == XMRigSourceMark(s) = "none"
P2PTrusted(s)   == P2PSourceMark(s) = "none"

BehindOffByOne(s) == s.height # Null /\ s.p2p.peerMax # Null /\ s.height + SidechainLag <= s.p2p.peerMax
Behind(s) == s.height # Null /\ s.p2p.peerMax # Null /\ s.height + SidechainLag < s.p2p.peerMax

MarkZMQ(v) == IF v = Null THEN "unknown" ELSE IF v > ZMQOldAfter THEN "degraded" ELSE "none"

\* The marks of the miner's API, then those of local/p2p.
XMRigLevel(s, level) ==
    IF XMRigTrusted(s)
    THEN Absorb(Absorb(level, MarkPositive(s.xmrig.connected)), MarkPositive(s.xmrig.hashrate))
    ELSE Absorb(level, XMRigSourceMark(s))

P2PLevel(s, level) ==
    IF P2PTrusted(s)
    THEN Absorb(Absorb(Absorb(level, MarkPositive(s.p2p.connections)),
                       IF Behind(s) THEN "degraded" ELSE "none"),
                MarkZMQ(s.p2p.zmqAge))
    ELSE Absorb(level, P2PSourceMark(s))

RuntimeLevel(s) == P2PLevel(s, XMRigLevel(s, "ok"))

\* The codes runtimeLevel adds to the list of issues.
RuntimeIssues(s) ==
    (IF s.xmrig.src.state # "ok" THEN {s.xmrig.src.code} ELSE {})
    \cup (IF XMRigTrusted(s) /\ s.xmrig.connected = 0 THEN {"XMRIG_DISCONNECTED"} ELSE {})
    \cup (IF XMRigTrusted(s) /\ s.xmrig.hashrate = 0 THEN {"HASHRATE_ZERO"} ELSE {})
    \cup (IF s.p2p.src.state # "ok" THEN {s.p2p.src.code} ELSE {})
    \cup (IF P2PTrusted(s) /\ s.p2p.connections = 0 THEN {"P2P_NO_CONNECTIONS"} ELSE {})
    \cup (IF P2PTrusted(s) /\ Behind(s) THEN {"SIDECHAIN_BEHIND"} ELSE {})
    \cup (IF P2PTrusted(s) /\ s.p2p.zmqAge > ZMQOldAfter THEN {"ZMQ_ACTIVITY_OLD"} ELSE {})

-----------------------------------------------------------------------------
(* Evaluate: the rules of H-02 in the order of the code. *)

Level(s) ==
    CASE s.systemd # "ok"                                  -> "unknown"
      [] s.systemd = "ok" /\ Broken(s)                     -> "degraded"
      [] s.systemd = "ok" /\ ~Broken(s) ->
            IF \A u \in Units : Inactive(s, u) THEN "stopped"
            ELSE IF \E u \in Units : Transitional(s, u) THEN "starting"
            ELSE IF \E u, v \in Units : Active(s, u) /\ Inactive(s, v) THEN "degraded"
            ELSE IF \A u \in Units : Active(s, u) THEN RuntimeLevel(s)
            ELSE "unknown"

\* The codes of the issues that Evaluate adds ("warning" and "error" ones).
UnitIssues(s) ==
    (IF \E u \in Units : s.unit[u].load = "not-found" THEN {"UNIT_NOT_FOUND"} ELSE {})
    \cup (IF \E u \in Units : \/ s.unit[u].load \in {"error", "bad-setting"}
                              \/ s.unit[u].active = "failed" THEN {"UNIT_FAILED"} ELSE {})
    \cup (IF \E u \in Units : s.unit[u].load = "masked" THEN {"UNIT_MASKED"} ELSE {})

\* The arms of the switch before the ones about a pair.
Settled(s) == \/ Broken(s)
              \/ \A u \in Units : Inactive(s, u)
              \/ \E u \in Units : Transitional(s, u)

HealthIssues(s) ==
    IF s.systemd # "ok" THEN {"SOURCE_ERROR"}
    ELSE UnitIssues(s) \cup
         (IF Settled(s) THEN {}
          ELSE IF \E u, v \in Units : Active(s, u) /\ Inactive(s, v) THEN {"UNIT_NOT_ACTIVE"}
          ELSE IF \A u \in Units : Active(s, u) THEN RuntimeIssues(s)
          ELSE {})

\* What Collect itself has added before: the codes of sources it could read, and the
\* clock of each of the four files.
CollectIssuesOfFiles(s) ==
    ({s.p2p.src.code} \cap {"SOURCE_NOT_CURRENT_SESSION", "CLOCK_UNCERTAIN"})
    \cup (IF "skewed" \in s.events THEN {"CLOCK_UNCERTAIN"} ELSE {})
CollectIssues(s) ==
    ({s.xmrig.src.code, s.p2p.src.code}
        \cap {"SOURCE_ID_MISMATCH", "SOURCE_NOT_CURRENT_SESSION", "CLOCK_UNCERTAIN"})
    \cup (IF "skewed" \in s.events THEN {"CLOCK_UNCERTAIN"} ELSE {})
=============================================================================
