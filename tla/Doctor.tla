-------------------------------- MODULE Doctor --------------------------------
(***************************************************************************)
(* The verdicts of `moneroid doctor' over a snapshot,                      *)
(* internal/doctor/doctor.go, beside the level health.go gives to the same *)
(* snapshot: the two read the same fields by rules of their own.           *)
(*                                                                         *)
(* Left out are the checks that health knows nothing of: enablement,       *)
(* ordering, dependencies, runtime directory, huge pages, node, token and  *)
(* journal.                                                                *)
(***************************************************************************)
EXTENDS HealthCheck

Check(code, component, result) == [code |-> code, component |-> component, result |-> result]

\* systemdChecks.  Without an answer of systemd there is one check, and no unit is
\* known to be active.
LoadedCheck(s, u) == IF s.unit[u].load \in {"loaded", "masked"} THEN "pass" ELSE "fail"

MaskedCheck(s, u) ==
    CASE s.unit[u].load = "masked" -> "fail"
      [] s.unit[u].load = "loaded" -> "pass"
      [] OTHER -> "skip"

ActiveCheckWarnOnly(s, u) ==
    CASE LoadedCheck(s, u) = "fail" -> "skip"
      [] LoadedCheck(s, u) = "pass" /\ Active(s, u) -> "pass"
      [] OTHER -> "skip"
ActiveCheck(s, u) ==
    CASE LoadedCheck(s, u) = "fail" -> "skip"
      [] LoadedCheck(s, u) = "pass" /\ Active(s, u) -> "pass"
      [] LoadedCheck(s, u) = "pass" /\ s.unit[u].active = "failed" -> "fail"
      [] OTHER -> "warn"

SystemdChecks(s) ==
    IF s.systemd # "ok" THEN {Check("SYSTEMD_AVAILABLE", "systemd", "fail")}
    ELSE {Check("SYSTEMD_AVAILABLE", "systemd", "pass")}
         \cup UNION {{Check("UNIT_LOADED", u, LoadedCheck(s, u)),
                      Check("UNIT_MASKED", u, MaskedCheck(s, u)),
                      Check("UNIT_ACTIVE", u, ActiveCheck(s, u))} : u \in Units}

KnownActive(s, u) == s.systemd = "ok" /\ Active(s, u)

\* p2poolChecks
FileCheck(s) == IF s.p2p.src = [state |-> "ok", code |-> ""] THEN "pass" ELSE "warn"

PositiveCheckOptional(v) == IF v = 0 THEN "warn" ELSE "pass"
PositiveCheck(v) == IF v = Null THEN "skip" ELSE IF v = 0 THEN "warn" ELSE "pass"

SyncCheck(s) ==
    IF s.p2p.src # [state |-> "ok", code |-> ""] \/ s.height = Null \/ s.p2p.peerMax = Null THEN "skip"
    ELSE IF s.height + SidechainLag < s.p2p.peerMax THEN "warn" ELSE "pass"

EventFilesCheck(s) == IF "unreadable" \in s.events THEN "warn" ELSE "pass"

ZMQCheck(s) == IF s.p2p.zmqAge = Null THEN "skip"
               ELSE IF s.p2p.zmqAge > ZMQOldAfter THEN "warn" ELSE "pass"

P2PoolChecks(s) ==
    {Check(c[1], "p2pool", IF KnownActive(s, "p2pool") THEN c[2] ELSE "skip") :
        c \in {<<"DATA_API_P2P", FileCheck(s)>>,
               <<"DATA_API_EVENT_FILES", EventFilesCheck(s)>>,
               <<"P2P_CONNECTIONS", PositiveCheck(s.p2p.connections)>>,
               <<"SIDECHAIN_SYNC", SyncCheck(s)>>,
               <<"ZMQ_ACTIVITY", ZMQCheck(s)>>}}

\* xmrigChecks
APICheck(s) == IF s.xmrig.src.state = "ok" THEN "pass" ELSE "fail"

SessionCheck(s) ==
    IF s.xmrig.src.code \in {"SOURCE_NOT_CURRENT_SESSION", "SOURCE_SESSION_UNKNOWN"}
    THEN "warn" ELSE "pass"

XMRigChecks(s) ==
    {Check("XMRIG_API", "xmrig", IF KnownActive(s, "xmrig") THEN APICheck(s) ELSE "skip")} \cup
    {Check(c[1], "xmrig", IF KnownActive(s, "xmrig") /\ APICheck(s) = "pass" THEN c[2] ELSE "skip") :
        c \in {<<"XMRIG_ID", IF s.xmrig.src.code = "SOURCE_ID_MISMATCH" THEN "fail" ELSE "pass">>,
               <<"XMRIG_SESSION", SessionCheck(s)>>,
               <<"XMRIG_CONNECTED", PositiveCheck(s.xmrig.connected)>>,
               <<"XMRIG_HASHRATE", PositiveCheck(s.xmrig.hashrate)>>}}

\* The CLOCK check of localChecks: whichever of the four files raised the issue.
ClockChecks(s) ==
    {Check("CLOCK", "moneroid", IF "CLOCK_UNCERTAIN" \in CollectIssues(s) THEN "warn" ELSE "pass")}

Checks(s) == SystemdChecks(s) \cup P2PoolChecks(s) \cup XMRigChecks(s) \cup ClockChecks(s)

Results(s, code) == {c.result : c \in {d \in Checks(s) : d.code = code}}

-----------------------------------------------------------------------------
(* Properties. *)

\* What the level does not depend on: a masked unit may run on, and H-03 asks nothing
\* of the event files, of which the doctor warns by two checks.
Aside == {"UNIT_MASKED", "DATA_API_EVENT_FILES", "CLOCK"}

\* Sidechain heights are optional.
Complaints(s) ==
    {c \in Checks(s) : c.result # "pass" /\ c.code \notin Aside
                       /\ ~(c.code = "SIDECHAIN_SYNC" /\ c.result = "skip")}

\* `status --check' and `doctor' agree: the level is ok exactly when the doctor has
\* nothing to complain of but masks and event files, although neither package calls the
\* other's rules.  A future time of local/p2p, too, costs the level: DATA_API_P2P warns
\* of it beside CLOCK.
DoctorAgrees == Level(snap) = "ok" <=> Complaints(snap) = {}

\* Whatever makes the level degraded shows as a warning or a failure of the doctor too,
\* never as skipped checks only, nor only as what the level does not depend on.
DegradedIsDiagnosed ==
    Level(snap) = "degraded" =>
        \E c \in Checks(snap) : c.result \in {"warn", "fail"} /\ c.code \notin Aside
=============================================================================
