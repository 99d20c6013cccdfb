----------------------------- MODULE HealthCheck -----------------------------
(***************************************************************************)
(* Health under every change of what a collection may find: one step       *)
(* changes one unit, one source or one value of the snapshot.              *)
(***************************************************************************)
EXTENDS Health

CONSTANTS
    Loads, Actives,  \* the load and active states tried
    XSources, PSources, \* the states tried of the miner's API and of local/p2p
    Counts,          \* the values tried of connected, hashrate and connections
    Heights, Ages    \* the sidechain heights and ZMQ ages tried, Null included

ASSUME TriedAssumption ==
    /\ Loads \subseteq LoadStates /\ "loaded" \in Loads
    /\ Actives \subseteq ActiveStates /\ "active" \in Actives
    /\ XSources \subseteq XMRigSources /\ [state |-> "ok", code |-> ""] \in XSources
    /\ PSources \subseteq P2PSources /\ [state |-> "ok", code |-> ""] \in PSources
    /\ Counts \subseteq Nullable /\ 1 \in Counts
    /\ Heights \subseteq Nullable /\ Null \in Heights
    /\ Ages \subseteq Nullable /\ 0 \in Ages

VARIABLE snap

Services == [load : Loads, active : Actives]

TypeOK ==
    snap \in [systemd : {"ok", "unavailable", "permission_denied"},
              unit : [Units -> Services],
              xmrig : [src : XSources, connected : Counts, hashrate : Counts],
              p2p : [src : PSources, connections : Counts, zmqAge : Ages, peerMax : Heights],
              height : Heights,
              events : SUBSET EventFaults]

\* A healthy pair of which the sidechain heights are not known yet.
Init ==
    snap = [systemd |-> "ok",
            unit |-> [u \in Units |-> [load |-> "loaded", active |-> "active"]],
            xmrig |-> [src |-> [state |-> "ok", code |-> ""], connected |-> 1, hashrate |-> 1],
            p2p |-> [src |-> [state |-> "ok", code |-> ""], connections |-> 1,
                     zmqAge |-> 0, peerMax |-> Null],
            height |-> Null,
            events |-> {}]

\* Bound: the values change while both units are known to run, and everything else
\* changes while they are the first ones: no health rule reads a value of a stopped unit.
\* The values change while nothing is wrong with the event files, too.
BothRun == /\ snap.systemd = "ok"
           /\ \A u \in Units : Active(snap, u) /\ snap.unit[u].load \in {"loaded", "masked"}
AtFirst == /\ snap.xmrig.connected = 1 /\ snap.xmrig.hashrate = 1 /\ snap.height = Null
           /\ snap.p2p.connections = 1 /\ snap.p2p.zmqAge = 0 /\ snap.p2p.peerMax = Null

SystemdChanges == /\ AtFirst
                  /\ \E st \in {"ok", "unavailable", "permission_denied"} :
                        snap' = [snap EXCEPT !.systemd = st]
UnitChanges    == /\ AtFirst
                  /\ \E u \in Units, sv \in Services : snap' = [snap EXCEPT !.unit[u] = sv]
EventChanges   == /\ AtFirst
                  /\ \E e \in SUBSET EventFaults : snap' = [snap EXCEPT !.events = e]
SourceChanges  == \/ \E src \in XSources : snap' = [snap EXCEPT !.xmrig.src = src]
                  \/ \E src \in PSources : snap' = [snap EXCEPT !.p2p.src = src]
XMRigChanges   == /\ BothRun
                  /\ snap.events = {}
                  /\ \/ \E v \in Counts : snap' = [snap EXCEPT !.xmrig.connected = v]
                     \/ \E v \in Counts : snap' = [snap EXCEPT !.xmrig.hashrate = v]
P2PChanges     == /\ BothRun
                  /\ snap.events = {}
                  /\ \/ \E v \in Counts : snap' = [snap EXCEPT !.p2p.connections = v]
                     \/ \E v \in Ages : snap' = [snap EXCEPT !.p2p.zmqAge = v]
                     \/ \E v \in Heights : snap' = [snap EXCEPT !.p2p.peerMax = v]
                     \/ \E v \in Heights : snap' = [snap EXCEPT !.height = v]

Next == SystemdChanges \/ UnitChanges \/ EventChanges \/ SourceChanges \/ XMRigChanges \/ P2PChanges

Spec == Init /\ [][Next]_snap

-----------------------------------------------------------------------------
(* Properties. *)

\* docs/spec.md H-03: everything `ok' requires.  The sidechain heights are the one
\* condition that counts as met while unknown (pool/stats is an event file).
Required ==
    /\ BothRun
    /\ snap.xmrig.src = [state |-> "ok", code |-> ""]
    /\ snap.p2p.src = [state |-> "ok", code |-> ""]
    /\ snap.xmrig.connected > 0 /\ snap.xmrig.hashrate > 0
    /\ snap.p2p.connections > 0
    /\ snap.p2p.zmqAge \in 0 .. ZMQOldAfter
    /\ snap.height # Null /\ snap.p2p.peerMax # Null => snap.p2p.peerMax - snap.height <= SidechainLag

\* `ok' is reported exactly when every requirement of H-03 holds, whatever the
\* order in which health.go finds the faults.
OkIsEarned == Level(snap) = "ok" <=> Required

\* H-03: "a known violation of these conditions" is degraded, however many other
\* fields are missing: unknown never covers a fault that was observed.
KnownViolation ==
    \/ snap.xmrig.src.state = "ok" /\ snap.xmrig.src.code \in {"SOURCE_ID_MISMATCH", "SOURCE_NOT_CURRENT_SESSION"}
    \/ snap.xmrig.src = [state |-> "ok", code |-> ""] /\ (snap.xmrig.connected = 0 \/ snap.xmrig.hashrate = 0)
    \/ snap.p2p.src.state = "stale"
    \/ snap.p2p.src = [state |-> "ok", code |-> "SOURCE_NOT_CURRENT_SESSION"]
    \/ /\ snap.p2p.src = [state |-> "ok", code |-> ""]
       /\ \/ snap.p2p.connections = 0
          \/ snap.p2p.zmqAge > ZMQOldAfter
          \/ snap.height # Null /\ snap.p2p.peerMax # Null /\ snap.p2p.peerMax - snap.height > SidechainLag

DegradedDominates == BothRun /\ KnownViolation => Level(snap) = "degraded"

\* H-01: whenever the level is degraded, an issue says why, although the level and
\* the issues are computed in different places of health.go and collect.go.  That a
\* unit is masked, or a file's time in the future, is no reason for that level.
DegradedIsExplained ==
    Level(snap) = "degraded" =>
        (HealthIssues(snap) \cup CollectIssues(snap)) \ {"UNIT_MASKED", "CLOCK_UNCERTAIN"} # {}
=============================================================================
