----------------------------- MODULE HealthProofs -----------------------------
(***************************************************************************)
(* Health and Doctor: the level `ok' means what H-03 requires, a known     *)
(* violation is never hidden behind a missing value, `degraded' never goes *)
(* without an issue, and the doctor agrees, for all heights, ages, counts  *)
(* and limits.                                                             *)
(***************************************************************************)
EXTENDS Doctor, TLAPS

\* The input of Evaluate is a snapshot of the tried values.
LEMMA TypeInvariant == Spec => []TypeOK
<1>1. Init => TypeOK
  <2> SUFFICES ASSUME Init PROVE TypeOK
    OBVIOUS
  <2>1. [u \in Units |-> [load |-> "loaded", active |-> "active"]] \in [Units -> Services]
    BY TriedAssumption DEF Services
  <2> QED
    BY <2>1, TriedAssumption DEF Init, TypeOK
<1>2. TypeOK /\ [Next]_snap => TypeOK'
  <2> SUFFICES ASSUME TypeOK, [Next]_snap PROVE TypeOK'
    OBVIOUS
  <2>1. CASE SystemdChanges
    BY <2>1 DEF SystemdChanges, TypeOK
  <2>2. CASE UnitChanges
    <3> PICK u \in Units, sv \in Services : snap' = [snap EXCEPT !.unit[u] = sv]
      BY <2>2 DEF UnitChanges
    <3>1. [snap.unit EXCEPT ![u] = sv] \in [Units -> Services]
      BY DEF TypeOK
    <3>2. snap' = [snap EXCEPT !.unit = [snap.unit EXCEPT ![u] = sv]]
      OBVIOUS
    <3> QED
      BY <3>1, <3>2 DEF TypeOK
  <2>3. CASE XMRigChanges
    BY <2>3 DEF XMRigChanges, TypeOK
  <2>4. CASE P2PChanges
    BY <2>4 DEF P2PChanges, TypeOK
  <2>5. CASE SourceChanges
    BY <2>5 DEF SourceChanges, TypeOK
  <2>e. CASE EventChanges
    BY <2>e DEF EventChanges, TypeOK
  <2>6. CASE UNCHANGED snap
    BY <2>6 DEF TypeOK
  <2>7. QED
    BY <2>1, <2>2, <2>3, <2>4, <2>5, <2>e, <2>6 DEF Next
<1>3. QED
  BY <1>1, <1>2, PTL DEF Spec

\* runtimeLevel starts at `ok' and only ever leaves it for a mark.
LEMMA AbsorbKeepsOk ==
    ASSUME NEW level, NEW mark
    PROVE  /\ Absorb(level, mark) = "ok" <=> level = "ok" /\ mark \notin {"degraded", "unknown"}
           /\ mark = "degraded" => Absorb(level, mark) = "degraded"
           /\ level = "degraded" => Absorb(level, mark) = "degraded"
BY DEF Absorb

\* A count is marked degraded exactly if it is zero and passes exactly if it is positive.
LEMMA PositiveLemma ==
    ASSUME NEW v \in Nullable
    PROVE  /\ MarkPositive(v) \notin {"degraded", "unknown"} <=> v > 0
           /\ MarkPositive(v) = "degraded" <=> v = 0
BY DEF MarkPositive, Nullable, Null

\* The ZMQ age passes exactly within the limit and is degraded exactly beyond it.
LEMMA ZMQLemma ==
    ASSUME NEW v \in Nullable
    PROVE  /\ MarkZMQ(v) \notin {"degraded", "unknown"} <=> v \in 0 .. ZMQOldAfter
           /\ MarkZMQ(v) = "degraded" <=> v > ZMQOldAfter
BY LimitsAssumption DEF MarkZMQ, Nullable, Null

-----------------------------------------------------------------------------
(* What TypeOK says of the values the rules read. *)
LEMMA Values ==
    ASSUME TypeOK
    PROVE  /\ snap.xmrig.src \in XMRigSources /\ snap.p2p.src \in P2PSources
           /\ snap.xmrig.connected \in Nullable /\ snap.xmrig.hashrate \in Nullable
           /\ snap.p2p.connections \in Nullable /\ snap.p2p.zmqAge \in Nullable
           /\ snap.p2p.peerMax \in Nullable /\ snap.height \in Nullable
BY TriedAssumption DEF TypeOK

XMRigRequired ==
    /\ snap.xmrig.src = [state |-> "ok", code |-> ""]
    /\ snap.xmrig.connected > 0 /\ snap.xmrig.hashrate > 0

XMRigViolated ==
    \/ snap.xmrig.src.state = "ok" /\ snap.xmrig.src.code \in {"SOURCE_ID_MISMATCH", "SOURCE_NOT_CURRENT_SESSION"}
    \/ snap.xmrig.src = [state |-> "ok", code |-> ""] /\ (snap.xmrig.connected = 0 \/ snap.xmrig.hashrate = 0)

P2PRequired ==
    /\ snap.p2p.src = [state |-> "ok", code |-> ""]
    /\ snap.p2p.connections > 0
    /\ snap.p2p.zmqAge \in 0 .. ZMQOldAfter
    /\ snap.height # Null /\ snap.p2p.peerMax # Null => snap.p2p.peerMax - snap.height <= SidechainLag

P2PViolated ==
    \/ snap.p2p.src.state = "stale"
    \/ snap.p2p.src = [state |-> "ok", code |-> "SOURCE_NOT_CURRENT_SESSION"]
    \/ /\ snap.p2p.src = [state |-> "ok", code |-> ""]
       /\ \/ snap.p2p.connections = 0
          \/ snap.p2p.zmqAge > ZMQOldAfter
          \/ snap.height # Null /\ snap.p2p.peerMax # Null /\ snap.p2p.peerMax - snap.height > SidechainLag

\* A source is known by its state and its code.
LEMMA SourceFields ==
    ASSUME NEW S, NEW C, NEW src \in [state : S, code : C], NEW c
    PROVE  src = [state |-> "ok", code |-> c] <=> src.state = "ok" /\ src.code = c
<1>1. src = [state |-> src.state, code |-> src.code]
  OBVIOUS
<1>2. ASSUME src = [state |-> "ok", code |-> c] PROVE src.state = "ok" /\ src.code = c
  BY <1>2
<1>3. ASSUME src.state = "ok", src.code = c PROVE src = [state |-> "ok", code |-> c]
  BY <1>1, <1>3
<1> QED
  BY <1>2, <1>3

\* The source of XMRig is the record of its state and its code.
LEMMA XMRigFields ==
    ASSUME TypeOK, NEW c
    PROVE  snap.xmrig.src = [state |-> "ok", code |-> c]
               <=> snap.xmrig.src.state = "ok" /\ snap.xmrig.src.code = c
<1> DEFINE src == snap.xmrig.src
<1>1. src \in XMRigSources
  BY Values
<1> HIDE DEF src
<1>2. CASE src \in [state : {"ok"}, code : XMRigCodes]
  BY <1>2, SourceFields DEF src
<1>3. CASE src \in [state : Unreadable, code : {"SOURCE_ERROR"}]
  BY <1>3, SourceFields DEF src
<1> QED
  BY <1>1, <1>2, <1>3 DEF XMRigSources

\* The source of local/p2p is the record of its state and its code.
LEMMA P2PFields ==
    ASSUME TypeOK, NEW c
    PROVE  snap.p2p.src = [state |-> "ok", code |-> c]
               <=> snap.p2p.src.state = "ok" /\ snap.p2p.src.code = c
<1> DEFINE src == snap.p2p.src
<1>1. src \in P2PSources
  BY Values
<1> HIDE DEF src
<1>2. CASE src \in [state : {"ok"}, code : P2PCodes]
  BY <1>2, SourceFields DEF src
<1>3. CASE src \in [state : {"stale"}, code : {"SOURCE_STALE"}]
  BY <1>3, SourceFields DEF src
<1>4. CASE src \in [state : Unreadable, code : {"SOURCE_ERROR"}]
  BY <1>4, SourceFields DEF src
<1> QED
  BY <1>1, <1>2, <1>3, <1>4 DEF P2PSources

\* A source raises no mark exactly when it was read and carries no code.
LEMMA SourceLemma ==
    ASSUME TypeOK
    PROVE  /\ XMRigSourceMark(snap) \in {"none", "unknown", "degraded"}
           /\ XMRigTrusted(snap) <=> snap.xmrig.src = [state |-> "ok", code |-> ""]
           /\ P2PSourceMark(snap) \in {"none", "unknown", "degraded"}
           /\ P2PTrusted(snap) <=> snap.p2p.src = [state |-> "ok", code |-> ""]
<1>1. snap.xmrig.src.state = "ok" => snap.xmrig.src.code \in XMRigCodes
  BY Values DEF XMRigSources, Unreadable
<1>2. snap.p2p.src.state = "ok" => snap.p2p.src.code \in P2PCodes
  BY Values DEF P2PSources, Unreadable
<1>3. XMRigTrusted(snap) <=> snap.xmrig.src.state = "ok" /\ snap.xmrig.src.code = ""
  BY <1>1 DEF XMRigCodes, XMRigSourceMark, XMRigTrusted
<1>4. P2PTrusted(snap) <=> snap.p2p.src.state = "ok" /\ snap.p2p.src.code = ""
  BY <1>2 DEF P2PCodes, P2PSourceMark, P2PTrusted
<1>5. XMRigSourceMark(snap) \in {"none", "unknown", "degraded"}
  BY DEF XMRigSourceMark
<1>6. P2PSourceMark(snap) \in {"none", "unknown", "degraded"}
  BY DEF P2PSourceMark
<1> QED
  BY <1>3, <1>4, <1>5, <1>6, XMRigFields, P2PFields

\* Behind takes both heights, and a difference over the limit.
LEMMA BehindLemma ==
    ASSUME TypeOK
    PROVE  Behind(snap) <=> /\ snap.height # Null /\ snap.p2p.peerMax # Null
                            /\ snap.p2p.peerMax - snap.height > SidechainLag
<1>1. snap.height \in Int /\ snap.p2p.peerMax \in Int
  BY Values DEF Nullable, Null
<1> QED
  BY <1>1, LimitsAssumption DEF Behind

\* The half of runtimeLevel about the miner.
LEMMA XMRigHalf ==
    ASSUME TypeOK
    PROVE  /\ XMRigLevel(snap, "ok") = "ok" <=> XMRigRequired
           /\ XMRigViolated => XMRigLevel(snap, "ok") = "degraded"
<1>1. CASE XMRigTrusted(snap)
  <2>1. /\ MarkPositive(snap.xmrig.connected) \notin {"degraded", "unknown"} <=> snap.xmrig.connected > 0
        /\ MarkPositive(snap.xmrig.connected) = "degraded" <=> snap.xmrig.connected = 0
        /\ MarkPositive(snap.xmrig.hashrate) \notin {"degraded", "unknown"} <=> snap.xmrig.hashrate > 0
        /\ MarkPositive(snap.xmrig.hashrate) = "degraded" <=> snap.xmrig.hashrate = 0
    BY Values, PositiveLemma
  <2>2. XMRigLevel(snap, "ok") = Absorb(Absorb("ok", MarkPositive(snap.xmrig.connected)),
                                        MarkPositive(snap.xmrig.hashrate))
    BY <1>1 DEF XMRigLevel
  <2>3. /\ snap.xmrig.src = [state |-> "ok", code |-> ""]
        /\ snap.xmrig.src.state = "ok" /\ snap.xmrig.src.code = ""
    BY <1>1, SourceLemma, XMRigFields
  <2>4. XMRigRequired <=> snap.xmrig.connected > 0 /\ snap.xmrig.hashrate > 0
    BY <2>3 DEF XMRigRequired
  <2>5. XMRigViolated <=> snap.xmrig.connected = 0 \/ snap.xmrig.hashrate = 0
    BY <2>3 DEF XMRigViolated
  <2> QED
    BY <2>1, <2>2, <2>4, <2>5, AbsorbKeepsOk
<1>2. CASE ~XMRigTrusted(snap)
  <2>1. XMRigLevel(snap, "ok") = Absorb("ok", XMRigSourceMark(snap))
    BY <1>2 DEF XMRigLevel
  <2>2. XMRigSourceMark(snap) \in {"degraded", "unknown"} /\ ~XMRigRequired
    BY <1>2, SourceLemma DEF XMRigTrusted, XMRigRequired
  <2>3. XMRigViolated => XMRigSourceMark(snap) = "degraded"
    BY <1>2, SourceLemma DEF XMRigViolated, XMRigSourceMark
  <2> QED
    BY <2>1, <2>2, <2>3, AbsorbKeepsOk
<1> QED
  BY <1>1, <1>2

\* The half about local/p2p, whatever level the first half has left.
LEMMA P2PHalf ==
    ASSUME TypeOK, NEW level
    PROVE  /\ P2PLevel(snap, level) = "ok" <=> level = "ok" /\ P2PRequired
           /\ P2PViolated \/ level = "degraded" => P2PLevel(snap, level) = "degraded"
<1>1. CASE P2PTrusted(snap)
  <2>1. /\ MarkPositive(snap.p2p.connections) \notin {"degraded", "unknown"} <=> snap.p2p.connections > 0
        /\ MarkPositive(snap.p2p.connections) = "degraded" <=> snap.p2p.connections = 0
        /\ MarkZMQ(snap.p2p.zmqAge) \notin {"degraded", "unknown"} <=> snap.p2p.zmqAge \in 0 .. ZMQOldAfter
        /\ MarkZMQ(snap.p2p.zmqAge) = "degraded" <=> snap.p2p.zmqAge > ZMQOldAfter
    BY Values, PositiveLemma, ZMQLemma
  <2>2. ~Behind(snap) <=> (snap.height # Null /\ snap.p2p.peerMax # Null
                             => snap.p2p.peerMax - snap.height <= SidechainLag)
    <3>1. snap.height \in Int /\ snap.p2p.peerMax \in Int
      BY Values DEF Nullable, Null
    <3> QED
      BY <3>1, BehindLemma, LimitsAssumption
  <2> DEFINE first  == Absorb(level, MarkPositive(snap.p2p.connections))
             second == Absorb(first, IF Behind(snap) THEN "degraded" ELSE "none")
             third  == Absorb(second, MarkZMQ(snap.p2p.zmqAge))
  <2>3. P2PLevel(snap, level) = third
    BY <1>1 DEF P2PLevel
  <2>4. /\ first = "ok" <=> level = "ok" /\ snap.p2p.connections > 0
        /\ snap.p2p.connections = 0 \/ level = "degraded" => first = "degraded"
    BY <2>1, AbsorbKeepsOk
  <2>5. /\ second = "ok" <=> first = "ok" /\ ~Behind(snap)
        /\ Behind(snap) \/ first = "degraded" => second = "degraded"
    BY AbsorbKeepsOk
  <2>6. /\ third = "ok" <=> second = "ok" /\ snap.p2p.zmqAge \in 0 .. ZMQOldAfter
        /\ snap.p2p.zmqAge > ZMQOldAfter \/ second = "degraded" => third = "degraded"
    BY <2>1, AbsorbKeepsOk
  <2> HIDE DEF first, second, third
  <2>7. P2PRequired <=> /\ snap.p2p.connections > 0 /\ ~Behind(snap)
                        /\ snap.p2p.zmqAge \in 0 .. ZMQOldAfter
    <3>1. snap.p2p.src = [state |-> "ok", code |-> ""]
      BY <1>1, SourceLemma
    <3> QED
      BY <2>2, <3>1 DEF P2PRequired
  <2>8. P2PViolated => snap.p2p.connections = 0 \/ Behind(snap) \/ snap.p2p.zmqAge > ZMQOldAfter
    <3>1. /\ snap.p2p.src.state = "ok" /\ snap.p2p.src.code = ""
          /\ snap.p2p.src # [state |-> "ok", code |-> "SOURCE_NOT_CURRENT_SESSION"]
      BY <1>1, SourceLemma, P2PFields
    <3> QED
      BY <3>1, BehindLemma DEF P2PViolated
  <2> QED
    BY <2>3, <2>4, <2>5, <2>6, <2>7, <2>8
<1>2. CASE ~P2PTrusted(snap)
  <2>1. P2PLevel(snap, level) = Absorb(level, P2PSourceMark(snap))
    BY <1>2 DEF P2PLevel
  <2>2. P2PSourceMark(snap) \in {"degraded", "unknown"} /\ ~P2PRequired
    BY <1>2, SourceLemma DEF P2PTrusted, P2PRequired
  <2>3. P2PViolated => P2PSourceMark(snap) = "degraded"
    <3>1. snap.p2p.src # [state |-> "ok", code |-> ""]
      BY <1>2, SourceLemma
    <3>2. snap.p2p.src.state = "stale" => P2PSourceMark(snap) = "degraded"
      BY DEF P2PSourceMark
    <3>3. snap.p2p.src.state = "ok" /\ snap.p2p.src.code = "SOURCE_NOT_CURRENT_SESSION"
              => P2PSourceMark(snap) = "degraded"
      BY DEF P2PSourceMark
    <3> QED
      BY <3>1, <3>2, <3>3, P2PFields DEF P2PViolated
  <2> QED
    BY <2>1, <2>2, <2>3, AbsorbKeepsOk
<1> QED
  BY <1>1, <1>2

-----------------------------------------------------------------------------
(* Evaluate reaches runtimeLevel when both units run. *)
LEMMA RunningLemma ==
    ASSUME BothRun
    PROVE  Level(snap) = RuntimeLevel(snap)
<1>1. snap.systemd = "ok"
  BY DEF BothRun
<1>2. \A u \in Units : /\ snap.unit[u].active = "active"
                         /\ snap.unit[u].load \in {"loaded", "masked"}
  BY DEF BothRun, Active
<1>3. ~Broken(snap)
  BY <1>2 DEF Broken
<1>4. /\ ~(\A u \in Units : Inactive(snap, u))
      /\ ~(\E u \in Units : Transitional(snap, u))
      /\ ~(\E u, v \in Units : Active(snap, u) /\ Inactive(snap, v))
      /\ \A u \in Units : Active(snap, u)
  BY <1>2 DEF Inactive, Transitional, Active, Units
<1> QED
  BY <1>1, <1>3, <1>4 DEF Level

\* Every other arm of Evaluate gives another level.
LEMMA NotRunningLemma ==
    ASSUME TypeOK, ~BothRun
    PROVE  Level(snap) # "ok"
<1>1. CASE snap.systemd # "ok"
  BY <1>1 DEF Level
<1>2. CASE snap.systemd = "ok" /\ Broken(snap)
  BY <1>2 DEF Level
<1>3. CASE snap.systemd = "ok" /\ ~Broken(snap)
  <2>1. \A u \in Units : snap.unit[u].load \in {"loaded", "masked"}
    BY <1>3, TriedAssumption DEF Broken, TypeOK, Services, LoadStates
  <2>2. ~(\A u \in Units : Active(snap, u))
    BY <1>3, <2>1 DEF BothRun
  <2> QED
    BY <1>3, <2>2 DEF Level
<1> QED
  BY <1>1, <1>2, <1>3

\* H-03: `ok' exactly when everything required holds, for every snapshot.
THEOREM OkCorrect == Spec => []OkIsEarned
<1>1. TypeOK => OkIsEarned
  <2> SUFFICES ASSUME TypeOK PROVE OkIsEarned
    OBVIOUS
  <2>1. CASE BothRun
    <3>1. Level(snap) = "ok" <=> XMRigRequired /\ P2PRequired
      BY <2>1, RunningLemma, XMRigHalf, P2PHalf DEF RuntimeLevel
    <3> QED
      BY <2>1, <3>1 DEF OkIsEarned, Required, XMRigRequired, P2PRequired
  <2>2. CASE ~BothRun
    BY <2>2, NotRunningLemma DEF OkIsEarned, Required
  <2> QED
    BY <2>1, <2>2
<1> QED
  BY <1>1, TypeInvariant, PTL

\* H-03: a known violation is `degraded', whatever else is unknown.
THEOREM DegradedCorrect == Spec => []DegradedDominates
<1>1. TypeOK => DegradedDominates
  <2> SUFFICES ASSUME TypeOK, BothRun, KnownViolation PROVE Level(snap) = "degraded"
    BY DEF DegradedDominates
  <2>1. XMRigViolated \/ P2PViolated
    BY DEF KnownViolation, XMRigViolated, P2PViolated
  <2> QED
    BY <2>1, RunningLemma, XMRigHalf, P2PHalf DEF RuntimeLevel
<1> QED
  BY <1>1, TypeInvariant, PTL

-----------------------------------------------------------------------------
(* Degraded. *)

\* A level is degraded by a mark or was degraded before.
LEMMA AbsorbDegraded ==
    ASSUME NEW level, NEW mark, Absorb(level, mark) = "degraded"
    PROVE  level = "degraded" \/ mark = "degraded"
BY DEF Absorb

\* runtimeLevel degrades only for a known violation: the converse of DegradedDominates.
LEMMA RuntimeDegraded ==
    ASSUME TypeOK, RuntimeLevel(snap) = "degraded"
    PROVE  KnownViolation
<1>1. ASSUME XMRigLevel(snap, "ok") = "degraded" PROVE KnownViolation
  <2>1. CASE XMRigTrusted(snap)
    <3>1. MarkPositive(snap.xmrig.connected) = "degraded" \/ MarkPositive(snap.xmrig.hashrate) = "degraded"
      BY <1>1, <2>1, AbsorbDegraded DEF XMRigLevel
    <3>2. snap.xmrig.connected = 0 \/ snap.xmrig.hashrate = 0
      BY <3>1, Values, PositiveLemma
    <3> QED
      BY <2>1, <3>2, SourceLemma DEF KnownViolation
  <2>2. CASE ~XMRigTrusted(snap)
    <3>1. XMRigSourceMark(snap) = "degraded"
      BY <1>1, <2>2, AbsorbDegraded DEF XMRigLevel
    <3> QED
      BY <3>1 DEF XMRigSourceMark, KnownViolation
  <2> QED
    BY <2>1, <2>2
<1>2. ASSUME P2PLevel(snap, XMRigLevel(snap, "ok")) = "degraded", XMRigLevel(snap, "ok") # "degraded"
      PROVE  KnownViolation
  <2>1. CASE P2PTrusted(snap)
    <3>1. \/ MarkPositive(snap.p2p.connections) = "degraded"
          \/ Behind(snap)
          \/ MarkZMQ(snap.p2p.zmqAge) = "degraded"
      BY <1>2, <2>1, AbsorbDegraded DEF P2PLevel
    <3>2. snap.p2p.connections = 0 \/ Behind(snap) \/ snap.p2p.zmqAge > ZMQOldAfter
      BY <3>1, Values, PositiveLemma, ZMQLemma
    <3> QED
      BY <2>1, <3>2, SourceLemma, BehindLemma DEF KnownViolation
  <2>2. CASE ~P2PTrusted(snap)
    <3>1. P2PSourceMark(snap) = "degraded"
      BY <1>2, <2>2, AbsorbDegraded DEF P2PLevel
    <3>2. \/ snap.p2p.src.state = "stale"
          \/ snap.p2p.src.state = "ok" /\ snap.p2p.src.code = "SOURCE_NOT_CURRENT_SESSION"
      BY <3>1 DEF P2PSourceMark
    <3> QED
      BY <3>2, P2PFields DEF KnownViolation
  <2> QED
    BY <2>1, <2>2
<1> QED
  BY <1>1, <1>2 DEF RuntimeLevel

\* The three ways to `degraded': a broken unit, one unit active beside an inactive one,
\* or two running units and a known violation.
LEMMA DegradedCauses ==
    ASSUME TypeOK, Level(snap) = "degraded"
    PROVE  /\ snap.systemd = "ok"
           /\ \/ Broken(snap)
              \/ /\ ~Broken(snap) /\ ~Settled(snap)
                 /\ \E u, v \in Units : Active(snap, u) /\ Inactive(snap, v)
              \/ ~Broken(snap) /\ ~Settled(snap) /\ BothRun /\ KnownViolation
<1>1. snap.systemd = "ok"
  BY DEF Level
<1>2. CASE Broken(snap)
  BY <1>1, <1>2
<1>3. CASE ~Broken(snap)
  <2>1. /\ ~(\A u \in Units : Inactive(snap, u))
        /\ ~(\E u \in Units : Transitional(snap, u))
    BY <1>1, <1>3 DEF Level
  <2>2. ~Settled(snap)
    BY <1>3, <2>1 DEF Settled
  <2>3. CASE \E u, v \in Units : Active(snap, u) /\ Inactive(snap, v)
    BY <1>1, <1>3, <2>2, <2>3
  <2>4. CASE ~\E u, v \in Units : Active(snap, u) /\ Inactive(snap, v)
    <3>1. (\A u \in Units : Active(snap, u)) /\ RuntimeLevel(snap) = "degraded"
      BY <1>1, <1>3, <2>1, <2>4 DEF Level
    <3>2. \A u \in Units : snap.unit[u].load \in {"loaded", "masked"}
      BY <1>3, TriedAssumption DEF Broken, TypeOK, Services, LoadStates
    <3> QED
      BY <1>1, <1>3, <2>2, <3>1, <3>2, RuntimeDegraded DEF BothRun
  <2> QED
    BY <2>3, <2>4
<1> QED
  BY <1>2, <1>3

\* H-01: a degraded level is never without an issue that says why.
THEOREM DegradedExplained == Spec => []DegradedIsExplained
<1>1. TypeOK => DegradedIsExplained
  <2> SUFFICES ASSUME TypeOK, Level(snap) = "degraded"
               PROVE  \E c \in HealthIssues(snap) \cup CollectIssues(snap) :
                          c \notin {"UNIT_MASKED", "CLOCK_UNCERTAIN"}
    BY DEF DegradedIsExplained
  <2>1. snap.systemd = "ok"
    BY DegradedCauses
  <2>2. CASE Broken(snap)
    <3>1. "UNIT_NOT_FOUND" \in UnitIssues(snap) \/ "UNIT_FAILED" \in UnitIssues(snap)
      BY <2>2 DEF Broken, UnitIssues
    <3> QED
      BY <2>1, <3>1 DEF HealthIssues
  <2>3. CASE ~Settled(snap) /\ \E u, v \in Units : Active(snap, u) /\ Inactive(snap, v)
    <3>1. "UNIT_NOT_ACTIVE" \in HealthIssues(snap)
      BY <2>1, <2>3 DEF HealthIssues
    <3> QED
      BY <3>1
  <2>4. CASE ~Settled(snap) /\ BothRun /\ KnownViolation
    <3>1. /\ \A u \in Units : Active(snap, u)
          /\ ~\E u, v \in Units : Active(snap, u) /\ Inactive(snap, v)
      BY <2>4 DEF BothRun, Active, Inactive
    <3>2. RuntimeIssues(snap) \subseteq HealthIssues(snap)
      BY <2>1, <2>4, <3>1 DEF HealthIssues
    <3>3. \E c \in RuntimeIssues(snap) \cup CollectIssues(snap) :
              c \notin {"UNIT_MASKED", "CLOCK_UNCERTAIN"}
      <4>1. CASE snap.xmrig.src.state = "ok" /\ snap.xmrig.src.code \in {"SOURCE_ID_MISMATCH", "SOURCE_NOT_CURRENT_SESSION"}
        BY <4>1 DEF CollectIssues
      <4>2. CASE snap.xmrig.src = [state |-> "ok", code |-> ""] /\ (snap.xmrig.connected = 0 \/ snap.xmrig.hashrate = 0)
        <5>1. "XMRIG_DISCONNECTED" \in RuntimeIssues(snap) \/ "HASHRATE_ZERO" \in RuntimeIssues(snap)
          BY <4>2, SourceLemma DEF RuntimeIssues
        <5> QED
          BY <5>1
      <4>3. CASE snap.p2p.src.state = "stale"
        <5>1. snap.p2p.src.code = "SOURCE_STALE"
          BY <4>3, Values DEF P2PSources, Unreadable
        <5>2. "SOURCE_STALE" \in RuntimeIssues(snap)
          BY <4>3, <5>1 DEF RuntimeIssues
        <5> QED
          BY <5>2
      <4>4. CASE snap.p2p.src = [state |-> "ok", code |-> "SOURCE_NOT_CURRENT_SESSION"]
        <5>1. "SOURCE_NOT_CURRENT_SESSION" \in CollectIssues(snap)
          BY <4>4, P2PFields DEF CollectIssues
        <5> QED
          BY <5>1
      <4>5. CASE /\ snap.p2p.src = [state |-> "ok", code |-> ""]
                 /\ snap.p2p.connections = 0 \/ snap.p2p.zmqAge > ZMQOldAfter \/ Behind(snap)
        <5>1. \/ "P2P_NO_CONNECTIONS" \in RuntimeIssues(snap)
              \/ "SIDECHAIN_BEHIND" \in RuntimeIssues(snap)
              \/ "ZMQ_ACTIVITY_OLD" \in RuntimeIssues(snap)
          BY <4>5, SourceLemma DEF RuntimeIssues
        <5> QED
          BY <5>1
      <4> QED
        BY <2>4, <4>1, <4>2, <4>3, <4>4, <4>5, BehindLemma DEF KnownViolation
    <3> QED
      BY <3>2, <3>3
  <2> QED
    BY <2>2, <2>3, <2>4, DegradedCauses
<1> QED
  BY <1>1, TypeInvariant, PTL

-----------------------------------------------------------------------------
(* The doctor. *)

OfP2Pool(s, r) == IF KnownActive(s, "p2pool") THEN r ELSE "skip"
OfXMRig(s, r)  == IF KnownActive(s, "xmrig") /\ APICheck(s) = "pass" THEN r ELSE "skip"

IDCheck(s)    == IF s.xmrig.src.code = "SOURCE_ID_MISMATCH" THEN "fail" ELSE "pass"
ClockCheck(s) == IF "CLOCK_UNCERTAIN" \in CollectIssues(s) THEN "warn" ELSE "pass"

\* The checks of the doctor, one by one, when systemd answered.
LEMMA CheckList ==
    ASSUME NEW s, s.systemd = "ok", NEW c
    PROVE  c \in Checks(s) <=>
              \/ c = Check("SYSTEMD_AVAILABLE", "systemd", "pass")
              \/ \E u \in Units : \/ c = Check("UNIT_LOADED", u, LoadedCheck(s, u))
                                  \/ c = Check("UNIT_MASKED", u, MaskedCheck(s, u))
                                  \/ c = Check("UNIT_ACTIVE", u, ActiveCheck(s, u))
              \/ c = Check("DATA_API_P2P", "p2pool", OfP2Pool(s, FileCheck(s)))
              \/ c = Check("DATA_API_EVENT_FILES", "p2pool", OfP2Pool(s, EventFilesCheck(s)))
              \/ c = Check("P2P_CONNECTIONS", "p2pool", OfP2Pool(s, PositiveCheck(s.p2p.connections)))
              \/ c = Check("SIDECHAIN_SYNC", "p2pool", OfP2Pool(s, SyncCheck(s)))
              \/ c = Check("ZMQ_ACTIVITY", "p2pool", OfP2Pool(s, ZMQCheck(s)))
              \/ c = Check("XMRIG_API", "xmrig", IF KnownActive(s, "xmrig") THEN APICheck(s) ELSE "skip")
              \/ c = Check("XMRIG_ID", "xmrig", OfXMRig(s, IDCheck(s)))
              \/ c = Check("XMRIG_SESSION", "xmrig", OfXMRig(s, SessionCheck(s)))
              \/ c = Check("XMRIG_CONNECTED", "xmrig", OfXMRig(s, PositiveCheck(s.xmrig.connected)))
              \/ c = Check("XMRIG_HASHRATE", "xmrig", OfXMRig(s, PositiveCheck(s.xmrig.hashrate)))
              \/ c = Check("CLOCK", "moneroid", ClockCheck(s))
<1>1. c \in SystemdChecks(s) <=>
          \/ c = Check("SYSTEMD_AVAILABLE", "systemd", "pass")
          \/ \E u \in Units : \/ c = Check("UNIT_LOADED", u, LoadedCheck(s, u))
                              \/ c = Check("UNIT_MASKED", u, MaskedCheck(s, u))
                              \/ c = Check("UNIT_ACTIVE", u, ActiveCheck(s, u))
  BY DEF SystemdChecks
<1>2. c \in P2PoolChecks(s) <=>
          \/ c = Check("DATA_API_P2P", "p2pool", OfP2Pool(s, FileCheck(s)))
          \/ c = Check("DATA_API_EVENT_FILES", "p2pool", OfP2Pool(s, EventFilesCheck(s)))
          \/ c = Check("P2P_CONNECTIONS", "p2pool", OfP2Pool(s, PositiveCheck(s.p2p.connections)))
          \/ c = Check("SIDECHAIN_SYNC", "p2pool", OfP2Pool(s, SyncCheck(s)))
          \/ c = Check("ZMQ_ACTIVITY", "p2pool", OfP2Pool(s, ZMQCheck(s)))
  BY DEF P2PoolChecks, OfP2Pool
<1>3. c \in XMRigChecks(s) <=>
          \/ c = Check("XMRIG_API", "xmrig", IF KnownActive(s, "xmrig") THEN APICheck(s) ELSE "skip")
          \/ c = Check("XMRIG_ID", "xmrig", OfXMRig(s, IDCheck(s)))
          \/ c = Check("XMRIG_SESSION", "xmrig", OfXMRig(s, SessionCheck(s)))
          \/ c = Check("XMRIG_CONNECTED", "xmrig", OfXMRig(s, PositiveCheck(s.xmrig.connected)))
          \/ c = Check("XMRIG_HASHRATE", "xmrig", OfXMRig(s, PositiveCheck(s.xmrig.hashrate)))
  BY DEF XMRigChecks, OfXMRig, IDCheck
<1>4. c \in ClockChecks(s) <=> c = Check("CLOCK", "moneroid", ClockCheck(s))
  BY DEF ClockChecks, ClockCheck
<1> QED
  BY <1>1, <1>2, <1>3, <1>4 DEF Checks

\* A check is the record of its three parts.
LEMMA CheckFields ==
    ASSUME NEW k, NEW u, NEW r
    PROVE  Check(k, u, r).code = k /\ Check(k, u, r).result = r
BY DEF Check

\* A check complains unless it passes, is about what the level does not depend on or
\* skips the heights.
LEMMA ComplaintLemma ==
    ASSUME NEW s, NEW k, NEW u, NEW r, Check(k, u, r) \in Checks(s), Complaints(s) = {}
    PROVE  r = "pass" \/ k \in Aside \/ (k = "SIDECHAIN_SYNC" /\ r = "skip")
BY CheckFields DEF Complaints

\* A check of a running service is not skipped for want of one.
LEMMA Judged ==
    ASSUME BothRun
    PROVE  /\ \A u \in Units : KnownActive(snap, u)
           /\ \A r : OfP2Pool(snap, r) = r
           /\ \A r : snap.xmrig.src.state = "ok" => OfXMRig(snap, r) = r
           /\ snap.systemd = "ok"
BY DEF BothRun, KnownActive, OfP2Pool, OfXMRig, APICheck, Units

\* The doctor's judgement of a count is that of health.go.
LEMMA PositiveJudged ==
    ASSUME NEW v \in Nullable
    PROVE  /\ PositiveCheck(v) = "pass" <=> v > 0
           /\ PositiveCheck(v) = "warn" <=> v = 0
BY DEF PositiveCheck, Nullable, Null

\* The doctor's judgement of the sidechain heights is that of health.go.
LEMMA SyncJudged ==
    ASSUME snap.p2p.src = [state |-> "ok", code |-> ""]
    PROVE  SyncCheck(snap) = IF snap.height = Null \/ snap.p2p.peerMax = Null THEN "skip"
                             ELSE IF Behind(snap) THEN "warn" ELSE "pass"
BY DEF SyncCheck, Behind

\* A source without an error code, by its fields.
LEMMA OkSources ==
    ASSUME TypeOK
    PROVE  /\ snap.xmrig.src = [state |-> "ok", code |-> ""] =>
                  snap.xmrig.src.state = "ok" /\ snap.xmrig.src.code = ""
           /\ snap.p2p.src = [state |-> "ok", code |-> ""] =>
                  snap.p2p.src.state = "ok" /\ snap.p2p.src.code = ""
<1>1. snap.xmrig.src = [state |-> "ok", code |-> ""] =>
          snap.xmrig.src.state = "ok" /\ snap.xmrig.src.code = ""
  BY XMRigFields, Zenon
<1>2. snap.p2p.src = [state |-> "ok", code |-> ""] =>
          snap.p2p.src.state = "ok" /\ snap.p2p.src.code = ""
  BY P2PFields, Zenon
<1> QED
  BY <1>1, <1>2

\* A doctor without a complaint has seen all that H-03 requires.
LEMMA QuietIsRequired ==
    ASSUME TypeOK, Complaints(snap) = {}
    PROVE  Required
<1>1. snap.systemd = "ok"
  <2> SUFFICES ASSUME snap.systemd # "ok" PROVE FALSE
    OBVIOUS
  <2>1. Check("SYSTEMD_AVAILABLE", "systemd", "fail") \in Checks(snap)
    BY DEF Checks, SystemdChecks
  <2> QED
    BY <2>1, ComplaintLemma DEF Aside
<1>2. BothRun
  <2> SUFFICES ASSUME NEW u \in Units
               PROVE  Active(snap, u) /\ snap.unit[u].load \in {"loaded", "masked"}
    BY <1>1 DEF BothRun
  <2>1. LoadedCheck(snap, u) = "pass"
    <3>1. Check("UNIT_LOADED", u, LoadedCheck(snap, u)) \in Checks(snap)
      BY <1>1, CheckList
    <3> QED
      BY <3>1, ComplaintLemma DEF Aside
  <2>2. ActiveCheck(snap, u) = "pass"
    <3>1. Check("UNIT_ACTIVE", u, ActiveCheck(snap, u)) \in Checks(snap)
      BY <1>1, CheckList
    <3> QED
      BY <3>1, ComplaintLemma DEF Aside
  <2> QED
    BY <2>1, <2>2 DEF LoadedCheck, ActiveCheck
<1>3. snap.p2p.src = [state |-> "ok", code |-> ""]
  <2>1. Check("DATA_API_P2P", "p2pool", FileCheck(snap)) \in Checks(snap)
    BY <1>1, <1>2, CheckList, Judged
  <2>2. FileCheck(snap) = "pass"
    BY <2>1, ComplaintLemma DEF Aside
  <2> QED
    BY <2>2 DEF FileCheck
<1>4. snap.p2p.connections > 0
  <2>1. Check("P2P_CONNECTIONS", "p2pool", PositiveCheck(snap.p2p.connections)) \in Checks(snap)
    BY <1>1, <1>2, CheckList, Judged
  <2>2. PositiveCheck(snap.p2p.connections) = "pass"
    BY <2>1, ComplaintLemma DEF Aside
  <2> QED
    BY <2>2, Values, PositiveJudged
<1>5. snap.p2p.zmqAge \in 0 .. ZMQOldAfter
  <2>1. Check("ZMQ_ACTIVITY", "p2pool", ZMQCheck(snap)) \in Checks(snap)
    BY <1>1, <1>2, CheckList, Judged
  <2>2. ZMQCheck(snap) = "pass"
    BY <2>1, ComplaintLemma DEF Aside
  <2> QED
    BY <2>2, Values, LimitsAssumption DEF ZMQCheck, Nullable, Null
<1>6. snap.height # Null /\ snap.p2p.peerMax # Null => snap.p2p.peerMax - snap.height <= SidechainLag
  <2>1. Check("SIDECHAIN_SYNC", "p2pool", SyncCheck(snap)) \in Checks(snap)
    BY <1>1, <1>2, CheckList, Judged
  <2>2. SyncCheck(snap) \in {"pass", "skip"}
    BY <2>1, ComplaintLemma DEF Aside
  <2>3. snap.height # Null /\ snap.p2p.peerMax # Null => ~Behind(snap)
    BY <1>3, <2>2, SyncJudged
  <2>4. snap.height \in Int /\ snap.p2p.peerMax \in Int
    BY Values DEF Nullable, Null
  <2> QED
    BY <2>3, <2>4, BehindLemma, LimitsAssumption
<1>7. snap.xmrig.src.state = "ok"
  <2>1. Check("XMRIG_API", "xmrig", APICheck(snap)) \in Checks(snap)
    BY <1>1, <1>2, CheckList, Judged DEF Units
  <2>2. APICheck(snap) = "pass"
    BY <2>1, ComplaintLemma DEF Aside
  <2> QED
    BY <2>2 DEF APICheck
<1>8. snap.xmrig.src = [state |-> "ok", code |-> ""]
  <2>1. Check("XMRIG_ID", "xmrig", IDCheck(snap)) \in Checks(snap)
    BY <1>1, <1>2, <1>7, CheckList, Judged
  <2>2. Check("XMRIG_SESSION", "xmrig", SessionCheck(snap)) \in Checks(snap)
    BY <1>1, <1>2, <1>7, CheckList, Judged
  <2>3. IDCheck(snap) = "pass" /\ SessionCheck(snap) = "pass"
    BY <2>1, <2>2, ComplaintLemma DEF Aside
  <2>4. XMRigTrusted(snap)
    BY <1>7, <2>3 DEF IDCheck, SessionCheck, XMRigTrusted, XMRigSourceMark
  <2> QED
    BY <2>4, SourceLemma
<1>9. snap.xmrig.connected > 0 /\ snap.xmrig.hashrate > 0
  <2>1. Check("XMRIG_CONNECTED", "xmrig", PositiveCheck(snap.xmrig.connected)) \in Checks(snap)
    BY <1>1, <1>2, <1>7, CheckList, Judged
  <2>2. Check("XMRIG_HASHRATE", "xmrig", PositiveCheck(snap.xmrig.hashrate)) \in Checks(snap)
    BY <1>1, <1>2, <1>7, CheckList, Judged
  <2>3. PositiveCheck(snap.xmrig.connected) = "pass" /\ PositiveCheck(snap.xmrig.hashrate) = "pass"
    BY <2>1, <2>2, ComplaintLemma DEF Aside
  <2> QED
    BY <2>3, Values, PositiveJudged
<1> QED
  BY <1>2, <1>3, <1>4, <1>5, <1>6, <1>8, <1>9 DEF Required

\* Where all that H-03 requires holds, every check passes or is about a mask, the event
\* files or the heights.
LEMMA RequiredIsQuiet ==
    ASSUME TypeOK, Required
    PROVE  Complaints(snap) = {}
<1>1. /\ BothRun /\ snap.systemd = "ok"
      /\ snap.xmrig.src.state = "ok" /\ snap.xmrig.src.code = ""
      /\ snap.p2p.src.state = "ok" /\ snap.p2p.src.code = ""
      /\ snap.p2p.src = [state |-> "ok", code |-> ""]
      /\ \A u \in Units : Active(snap, u) /\ snap.unit[u].load \in {"loaded", "masked"}
  <2>1. /\ BothRun /\ snap.xmrig.src = [state |-> "ok", code |-> ""]
        /\ snap.p2p.src = [state |-> "ok", code |-> ""]
    BY Zenon DEF Required
  <2> QED
    <3>1. /\ snap.xmrig.src.state = "ok" /\ snap.xmrig.src.code = ""
          /\ snap.p2p.src.state = "ok" /\ snap.p2p.src.code = ""
      BY <2>1, OkSources
    <3>2. snap.systemd = "ok" /\ \A u \in Units : Active(snap, u) /\ snap.unit[u].load \in {"loaded", "masked"}
      BY <2>1 DEF BothRun
    <3> QED
      BY <2>1, <3>1, <3>2, Zenon
<1>2. ASSUME NEW u \in Units
      PROVE  LoadedCheck(snap, u) = "pass" /\ ActiveCheck(snap, u) = "pass"
  <2>1. Active(snap, u) /\ snap.unit[u].load \in {"loaded", "masked"}
    BY <1>1, Zenon
  <2>2. LoadedCheck(snap, u) = "pass"
    BY <2>1 DEF LoadedCheck
  <2>3. ActiveCheck(snap, u) = "pass"
    <3>1. LoadedCheck(snap, u) # "fail" /\ snap.unit[u].active # "failed"
      BY <2>1, <2>2 DEF Active
    <3> QED
      BY <2>1, <2>2, <3>1 DEF ActiveCheck
  <2> QED
    BY <2>2, <2>3
<1>3. /\ PositiveCheck(snap.p2p.connections) = "pass"
      /\ PositiveCheck(snap.xmrig.connected) = "pass"
      /\ PositiveCheck(snap.xmrig.hashrate) = "pass"
  BY Values, PositiveJudged DEF Required
<1>4. ZMQCheck(snap) = "pass"
  <2>1. snap.p2p.zmqAge \in 0 .. ZMQOldAfter
    BY DEF Required
  <2> QED
    BY <2>1, LimitsAssumption DEF ZMQCheck, Null
<1>5. SyncCheck(snap) \in {"pass", "skip"}
  <2>1. snap.height \in Int /\ snap.p2p.peerMax \in Int
    BY Values DEF Nullable, Null
  <2>2. snap.height # Null /\ snap.p2p.peerMax # Null => ~Behind(snap)
    <3>1. snap.height # Null /\ snap.p2p.peerMax # Null => snap.p2p.peerMax - snap.height <= SidechainLag
      BY Zenon DEF Required
    <3> QED
      BY <2>1, <3>1, BehindLemma, LimitsAssumption
  <2> QED
    BY <1>1, <2>2, SyncJudged
<1>6. FileCheck(snap) = "pass" /\ APICheck(snap) = "pass" /\ IDCheck(snap) = "pass" /\ SessionCheck(snap) = "pass"
  BY <1>1 DEF FileCheck, APICheck, IDCheck, SessionCheck
<1>8. ASSUME NEW c \in Checks(snap)
      PROVE  c.result = "pass" \/ c.code \in Aside \/ (c.code = "SIDECHAIN_SYNC" /\ c.result = "skip")
  <2>1. CASE \E u \in Units : \/ c = Check("UNIT_LOADED", u, LoadedCheck(snap, u))
                              \/ c = Check("UNIT_MASKED", u, MaskedCheck(snap, u))
                              \/ c = Check("UNIT_ACTIVE", u, ActiveCheck(snap, u))
    BY <1>2, <2>1, CheckFields DEF Aside
  <2>2. CASE \/ c = Check("SYSTEMD_AVAILABLE", "systemd", "pass")
             \/ c = Check("CLOCK", "moneroid", ClockCheck(snap))
             \/ c = Check("DATA_API_EVENT_FILES", "p2pool", OfP2Pool(snap, EventFilesCheck(snap)))
    BY <2>2, CheckFields DEF Aside
  <2>3. CASE \/ c = Check("DATA_API_P2P", "p2pool", OfP2Pool(snap, FileCheck(snap)))
             \/ c = Check("P2P_CONNECTIONS", "p2pool", OfP2Pool(snap, PositiveCheck(snap.p2p.connections)))
             \/ c = Check("SIDECHAIN_SYNC", "p2pool", OfP2Pool(snap, SyncCheck(snap)))
             \/ c = Check("ZMQ_ACTIVITY", "p2pool", OfP2Pool(snap, ZMQCheck(snap)))
    <3>1. /\ OfP2Pool(snap, FileCheck(snap)) = "pass"
          /\ OfP2Pool(snap, PositiveCheck(snap.p2p.connections)) = "pass"
          /\ OfP2Pool(snap, SyncCheck(snap)) \in {"pass", "skip"}
          /\ OfP2Pool(snap, ZMQCheck(snap)) = "pass"
      BY <1>1, <1>3, <1>4, <1>5, <1>6, Judged
    <3> QED
      BY <2>3, <3>1, CheckFields
  <2>4. CASE \/ c = Check("XMRIG_API", "xmrig", IF KnownActive(snap, "xmrig") THEN APICheck(snap) ELSE "skip")
             \/ c = Check("XMRIG_ID", "xmrig", OfXMRig(snap, IDCheck(snap)))
             \/ c = Check("XMRIG_SESSION", "xmrig", OfXMRig(snap, SessionCheck(snap)))
             \/ c = Check("XMRIG_CONNECTED", "xmrig", OfXMRig(snap, PositiveCheck(snap.xmrig.connected)))
             \/ c = Check("XMRIG_HASHRATE", "xmrig", OfXMRig(snap, PositiveCheck(snap.xmrig.hashrate)))
    <3>1. /\ (IF KnownActive(snap, "xmrig") THEN APICheck(snap) ELSE "skip") = "pass"
          /\ OfXMRig(snap, IDCheck(snap)) = "pass"
          /\ OfXMRig(snap, SessionCheck(snap)) = "pass"
          /\ OfXMRig(snap, PositiveCheck(snap.xmrig.connected)) = "pass"
          /\ OfXMRig(snap, PositiveCheck(snap.xmrig.hashrate)) = "pass"
      BY <1>1, <1>3, <1>6, Judged DEF Units
    <3> QED
      BY <2>4, <3>1, CheckFields
  <2> QED
    BY <1>1, <2>1, <2>2, <2>3, <2>4, CheckList
<1> QED
  BY <1>8 DEF Complaints

\* `status --check' and `doctor' give the same verdict on every snapshot, masks and event
\* files aside.
THEOREM DoctorCorrect == Spec => []DoctorAgrees
<1>1. TypeOK /\ OkIsEarned => DoctorAgrees
  BY QuietIsRequired, RequiredIsQuiet DEF OkIsEarned, DoctorAgrees
<1> QED
  BY <1>1, TypeInvariant, OkCorrect, PTL

\* What makes the level degraded shows as a warning or a failure of the doctor.
THEOREM DegradedDiagnosed == Spec => []DegradedIsDiagnosed
<1>1. TypeOK => DegradedIsDiagnosed
  <2> USE DEF Aside
  <2> SUFFICES ASSUME TypeOK, Level(snap) = "degraded"
               PROVE  \E k, u, r : /\ Check(k, u, r) \in Checks(snap)
                                   /\ r \in {"warn", "fail"} /\ k \notin Aside
    BY CheckFields DEF DegradedIsDiagnosed
  <2>1. snap.systemd = "ok"
    BY DegradedCauses
  <2>2. \A u \in Units : /\ Check("UNIT_LOADED", u, LoadedCheck(snap, u)) \in Checks(snap)
                         /\ Check("UNIT_ACTIVE", u, ActiveCheck(snap, u)) \in Checks(snap)
    BY <2>1, CheckList
  <2>3. CASE Broken(snap)
    <3>1. PICK u \in Units : \/ snap.unit[u].load \in {"not-found", "error", "bad-setting"}
                             \/ snap.unit[u].active = "failed"
      BY <2>3 DEF Broken
    <3>2. LoadedCheck(snap, u) = "fail" \/ ActiveCheck(snap, u) = "fail"
      BY <3>1 DEF LoadedCheck, ActiveCheck, Active
    <3> QED
      BY <2>2, <3>2
  <2>4. CASE ~Broken(snap) /\ \E u, v \in Units : Active(snap, u) /\ Inactive(snap, v)
    <3>1. PICK v \in Units : Inactive(snap, v)
      BY <2>4
    <3>2. snap.unit[v].load \in {"loaded", "masked"}
      BY <2>4, TriedAssumption DEF Broken, TypeOK, Services, LoadStates
    <3>3. ActiveCheck(snap, v) = "warn"
      BY <3>1, <3>2 DEF LoadedCheck, ActiveCheck, Active, Inactive
    <3> QED
      BY <2>2, <3>3
  <2>5. CASE BothRun /\ KnownViolation
    <3>1. CASE snap.xmrig.src.state = "ok" /\ snap.xmrig.src.code \in {"SOURCE_ID_MISMATCH", "SOURCE_NOT_CURRENT_SESSION"}
      <4>1. /\ Check("XMRIG_ID", "xmrig", IDCheck(snap)) \in Checks(snap)
            /\ Check("XMRIG_SESSION", "xmrig", SessionCheck(snap)) \in Checks(snap)
        BY <2>1, <2>5, <3>1, CheckList, Judged
      <4>2. IDCheck(snap) = "fail" \/ SessionCheck(snap) = "warn"
        BY <3>1 DEF IDCheck, SessionCheck
      <4> QED
        BY <4>1, <4>2
    <3>2. CASE snap.xmrig.src = [state |-> "ok", code |-> ""] /\ (snap.xmrig.connected = 0 \/ snap.xmrig.hashrate = 0)
      <4>1. snap.xmrig.src.state = "ok"
        BY <3>2, OkSources
      <4>2. /\ Check("XMRIG_CONNECTED", "xmrig", PositiveCheck(snap.xmrig.connected)) \in Checks(snap)
            /\ Check("XMRIG_HASHRATE", "xmrig", PositiveCheck(snap.xmrig.hashrate)) \in Checks(snap)
        BY <2>1, <2>5, <4>1, CheckList, Judged
      <4>3. PositiveCheck(snap.xmrig.connected) = "warn" \/ PositiveCheck(snap.xmrig.hashrate) = "warn"
        BY <3>2, Values, PositiveJudged
      <4> QED
        BY <4>2, <4>3
    <3>3. CASE snap.p2p.src.state = "stale" \/ snap.p2p.src = [state |-> "ok", code |-> "SOURCE_NOT_CURRENT_SESSION"]
      <4>1. Check("DATA_API_P2P", "p2pool", FileCheck(snap)) \in Checks(snap)
        BY <2>1, <2>5, CheckList, Judged
      <4>2. FileCheck(snap) = "warn"
        BY <3>3, P2PFields DEF FileCheck
      <4> QED
        BY <4>1, <4>2
    <3>4. CASE /\ snap.p2p.src = [state |-> "ok", code |-> ""]
               /\ \/ snap.p2p.connections = 0
                  \/ snap.p2p.zmqAge > ZMQOldAfter
                  \/ snap.height # Null /\ snap.p2p.peerMax # Null /\ snap.p2p.peerMax - snap.height > SidechainLag
      <4>1. /\ Check("P2P_CONNECTIONS", "p2pool", PositiveCheck(snap.p2p.connections)) \in Checks(snap)
            /\ Check("ZMQ_ACTIVITY", "p2pool", ZMQCheck(snap)) \in Checks(snap)
            /\ Check("SIDECHAIN_SYNC", "p2pool", SyncCheck(snap)) \in Checks(snap)
        BY <2>1, <2>5, CheckList, Judged
      <4>2. CASE snap.p2p.connections = 0
        <5>1. PositiveCheck(snap.p2p.connections) = "warn"
          BY <4>2, Values, PositiveJudged
        <5> QED
          BY <4>1, <5>1
      <4>3. CASE snap.p2p.zmqAge > ZMQOldAfter
        <5>1. ZMQCheck(snap) = "warn"
          BY <4>3, LimitsAssumption, Values DEF ZMQCheck, Nullable, Null
        <5> QED
          BY <4>1, <5>1
      <4>4. CASE snap.height # Null /\ snap.p2p.peerMax # Null /\ snap.p2p.peerMax - snap.height > SidechainLag
        <5>1. SyncCheck(snap) = "warn"
          BY <3>4, <4>4, BehindLemma, SyncJudged
        <5> QED
          BY <4>1, <5>1
      <4> QED
        BY <3>4, <4>2, <4>3, <4>4
    <3> QED
      BY <2>5, <3>1, <3>2, <3>3, <3>4 DEF KnownViolation
  <2> QED
    BY <2>3, <2>4, <2>5, DegradedCauses
<1> QED
  BY <1>1, TypeInvariant, PTL
=============================================================================
