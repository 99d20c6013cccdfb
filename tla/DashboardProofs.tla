--------------------------- MODULE DashboardProofs ---------------------------
(***************************************************************************)
(* Proofs about Dashboard, for every set of keys, chart capacity and bound.*)
(***************************************************************************)
EXTENDS Dashboard, SequenceTheorems, TLAPS

(* A function on an initial segment of the naturals is a sequence. *)
LEMMA SeqIntro ==
    ASSUME NEW S, NEW n \in Nat, NEW f \in [1 .. n -> S]
    PROVE  f \in Seq(S) /\ Len(f) = n
  BY SMT

(* A suffix of a non-empty sequence is a sequence. *)
LEMMA SuffixIntro ==
    ASSUME NEW S, NEW h \in Seq(S), NEW k \in 1 .. Len(h)
    PROVE  /\ SubSeq(h, k, Len(h)) \in Seq(S)
           /\ Len(SubSeq(h, k, Len(h))) = Len(h) - k + 1
           /\ \A i \in 1 .. Len(h) - k + 1 : SubSeq(h, k, Len(h))[i] = h[k + i - 1]
  <1>1. Len(h) \in Nat /\ k \in Int /\ Len(h) \in Int /\ k <= Len(h)
    BY LenProperties, SMT
  <1>2. \A i \in k .. Len(h) : h[i] \in S
    BY <1>1, ElementOfSeq, SMT
  <1>3. QED
    BY <1>1, <1>2, SubSeqProperties, SMT

(* refresh adds at most one collection, and none beside a guarded one. *)
LEMMA RefreshLemma ==
    ASSUME collecting \in BOOLEAN, NEW earlier \in Seq(Collection), Refresh(earlier)
    PROVE  /\ collecting' \in BOOLEAN
           /\ inflight' \in Seq(Collection)
           /\ collecting' => inflight' # <<>> \/ earlier = <<>>
           /\ ~collecting => collecting' /\ Len(inflight') = Len(earlier) + 1
           /\ collecting => collecting' /\ inflight' = earlier
  <1>1. Fresh \in Collection
    BY SMT DEF Fresh, Collection, UnitsRead, MinerRead
  <1>2. CASE ~collecting
    BY <1>1, <1>2, AppendProperties, SMT DEF Refresh, MayCollect
  <1>3. CASE collecting
    BY <1>3, SMT DEF Refresh, MayCollect
  <1>4. QED
    BY <1>2, <1>3

(* Setting a field of a collection leaves a collection. *)
LEMMA TagLemma ==
    ASSUME NEW c \in Collection
    PROVE  /\ [c EXCEPT !.afterOp = FALSE] \in Collection
           /\ \A r \in UnitsRead : [c EXCEPT !.units = r] \in Collection
           /\ \A r \in MinerRead : [c EXCEPT !.miner = r] \in Collection
  BY DEF Collection

(* The collections left after a delivery: one fewer, none of another kind. *)
LEMMA WithoutLemma ==
    ASSUME inflight \in Seq(Collection), NEW i \in 1 .. Len(inflight)
    PROVE  Without(i) \in Seq(Collection) /\ Len(Without(i)) = Len(inflight) - 1
  <1>1. Len(inflight) \in Nat /\ Len(inflight) - 1 \in Nat
    BY LenProperties, SMT
  <1>2. ASSUME NEW k \in 1 .. Len(inflight) - 1
        PROVE  (IF k < i THEN inflight[k] ELSE inflight[k + 1]) \in Collection
    <2>1. k \in 1 .. Len(inflight) /\ k + 1 \in 1 .. Len(inflight)
      BY <1>1, <1>2, SMT
    <2>2. inflight[k] \in Collection /\ inflight[k + 1] \in Collection
      BY <2>1, ElementOfSeq
    <2>3. QED
      BY <2>2
  <1>3. Without(i) \in [1 .. Len(inflight) - 1 -> Collection]
    BY <1>2 DEF Without
  <1>4. QED
    BY <1>1, <1>3, SeqIntro

(* What a delivered collection says is a snapshot. *)
LEMMA ResultLemma ==
    ASSUME NEW c \in Collection
    PROVE  \A b \in BOOLEAN : Result(c, b) \in Snapshot
  BY SMT DEF Result, Collection, UnitsRead, MinerRead, Snapshot

(* The chart stays a sequence of points within its capacity. *)
LEMMA RecordLemma ==
    ASSUME history \in Seq(Point), NEW s \in Snapshot, NEW b \in BOOLEAN,
           Record(s, b), ConstantsAssumption
    PROVE  history' \in Seq(Point) /\ Len(history') <= HistoryLen /\ lastInv' \in Nat
  <1>1. Plot(s, b) \in Point /\ Gap \in Point
    BY SMT DEF Plot, Gap, Point, Snapshot
  <1>2. (IF NewSession(s) THEN Append(history, Gap) ELSE history) \in Seq(Point)
    BY <1>1, AppendProperties
  <1>3. <<Plot(s, b)>> \in Seq(Point)
    BY <1>1, SMT
  <1>4. Recorded(s, b) \in Seq(Point)
    BY <1>2, <1>3, ConcatProperties DEF Recorded
  <1>5. PICK k \in FirstKept(Recorded(s, b)) :
            history' = SubSeq(Recorded(s, b), k, Len(Recorded(s, b)))
    BY DEF Record
  <1>6. k \in 1 .. Len(Recorded(s, b)) /\ Len(Recorded(s, b)) - k < HistoryLen
    BY <1>5 DEF FirstKept
  <1>7. history' \in Seq(Point) /\ Len(history') = Len(Recorded(s, b)) - k + 1
    BY <1>4, <1>5, <1>6, SuffixIntro
  <1>8. Len(history') <= HistoryLen
    <2>1. Len(Recorded(s, b)) \in Nat
      BY <1>4, LenProperties
    <2>2. QED
      BY <1>6, <1>7, <2>1, SMT DEF ConstantsAssumption
  <1>9. lastInv' \in Nat
    BY SMT DEF Record, Snapshot
  <1>10. QED
    BY <1>7, <1>8, <1>9

-----------------------------------------------------------------------------
(* Type correctness. *)

(* The reads of a collection replace one of its fields. *)
LEMMA ReadsType ==
    ASSUME TypeOK, ConstantsAssumption, NEW i \in 1 .. Len(inflight),
           ReadUnits(i) \/ ReadMiner(i)
    PROVE  inflight' \in Seq(Collection) /\ Len(inflight') = Len(inflight)
  <1>1. inflight \in Seq(Collection) /\ inflight[i] \in Collection
    BY ElementOfSeq DEF TypeOK
  <1>0. world.session \in Nat /\ world.running \in BOOLEAN /\ world.rejected \in Nat
    BY DEF TypeOK, World
  <1>2. CASE ReadUnits(i)
    <2>1. PICK r : /\ \/ r = [st |-> "seen", inv |-> world.session, active |-> world.running]
                      \/ r = [st |-> "failed", inv |-> 0, active |-> FALSE]
                   /\ inflight' = [inflight EXCEPT ![i] = [@ EXCEPT !.units = r]]
      BY <1>2 DEF ReadUnits
    <2>2. r \in UnitsRead
      <3>1. [st |-> "seen", inv |-> world.session, active |-> world.running]
              \in UnitsRead
        BY <1>0 DEF UnitsRead
      <3>2. [st |-> "failed", inv |-> 0, active |-> FALSE] \in UnitsRead
        BY SMT DEF UnitsRead
      <3>3. QED
        BY <2>1, <3>1, <3>2
    <2>3. [inflight[i] EXCEPT !.units = r] \in Collection
      BY <1>1, <2>2, TagLemma
    <2>4. QED
      BY <1>1, <2>1, <2>3, ExceptSeq
  <1>3. CASE ReadMiner(i)
    <2>0. world.rejected .. MaxRejected \subseteq Nat
      BY <1>0, SMT DEF ConstantsAssumption
    <2>1. \A n \in Nat : [st |-> "answered", of |-> world.session, rejected |-> n] \in MinerRead
      BY <1>0 DEF MinerRead
    <2>2. [st |-> "down", of |-> 0, rejected |-> 0] \in MinerRead
      BY SMT DEF MinerRead
    <2>r. PICK r \in MinerRead : inflight' = [inflight EXCEPT ![i] = [@ EXCEPT !.miner = r]]
      <3>1. CASE MinerAnswers(i)
        BY <2>0, <2>1, <3>1 DEF MinerAnswers
      <3>2. CASE MinerFails(i)
        BY <2>2, <3>2 DEF MinerFails
      <3>3. QED
        BY <1>3, <3>1, <3>2 DEF ReadMiner
    <2>3. [inflight[i] EXCEPT !.miner = r] \in Collection
      BY <1>1, TagLemma
    <2>4. QED
      BY <1>1, <2>r, <2>3, ExceptSeq
  <1>4. QED
    BY <1>2, <1>3

(* What the four steps of a journal view make of its counters. *)
LEMMA ViewerLemma ==
    ASSUME viewer \in Viewer
    PROVE  /\ [viewer EXCEPT !.asked = @ + 1] \in Viewer
           /\ viewer.asked > 0 => [viewer EXCEPT !.asked = @ - 1, !.open = TRUE] \in Viewer
           /\ [viewer EXCEPT !.open = FALSE, !.returned = @ + 1] \in Viewer
           /\ viewer.returned > 0 => [viewer EXCEPT !.returned = @ - 1] \in Viewer
  <1>1. /\ viewer.asked + 1 \in Nat /\ viewer.returned + 1 \in Nat
        /\ viewer.asked > 0 => viewer.asked - 1 \in Nat
        /\ viewer.returned > 0 => viewer.returned - 1 \in Nat
    BY SMT DEF Viewer
  <1>2. QED
    BY <1>1 DEF Viewer

(* The keys that move through the menus keep the types. *)
LEMMA MenuType ==
    ASSUME TypeOK, MenuKey
    PROVE  TypeOK'
  <1> USE DEF menuVars, refreshVars, screenVars, opVars, payVars
  <1> DEFINE Menus == [mode : Modes, forLogs : BOOLEAN, target : Cycle,
                       action : Cycle, confirmOK : BOOLEAN]
  <1>0. menu \in Menus
    BY DEF TypeOK
  <1>1. ASSUME NEW new \in Menus, NEW moved \in BOOLEAN, MenuOnly(new, moved)
        PROVE  TypeOK'
    BY <1>1 DEF TypeOK, MenuOnly
  <1>a. 0 \in Cycle
    BY DEF Cycle
  <1>b. \A m \in Modes : [menu EXCEPT !.mode = m] \in Menus
    BY <1>0
  <1>c. \A m \in Modes, b \in BOOLEAN :
           [menu EXCEPT !.mode = m, !.forLogs = b, !.target = 0] \in Menus
    BY <1>0, <1>a
  <1>d. \A m \in Modes : [menu EXCEPT !.mode = m, !.action = 0] \in Menus
    BY <1>0, <1>a
  <1>e. \A m \in Modes, b \in BOOLEAN : [menu EXCEPT !.mode = m, !.confirmOK = b] \in Menus
    BY <1>0
  <1>f. \A b \in BOOLEAN : [menu EXCEPT !.confirmOK = b] \in Menus
    BY <1>0
  <1>g. \A n \in Cycle : /\ [menu EXCEPT !.target = n] \in Menus
                         /\ [menu EXCEPT !.action = n] \in Menus
    BY <1>0
  <1>3. "dashboard" \in Modes /\ "target" \in Modes /\ "help" \in Modes
        /\ "action" \in Modes /\ "confirm" \in Modes
    BY DEF Modes
  <1>4. touched \in BOOLEAN
    BY DEF TypeOK
  <1>5. ASSUME Launch PROVE TypeOK'
    <2>1. menu' \in Menus /\ touched' \in BOOLEAN
      BY <1>b, <1>3, <1>5 DEF Launch
    <2>2. actions[menu.action + 1] \in {"start", "stop", "restart"} /\ menu.target \in Cycle
      BY <1>0, SMT DEF actions, Cycle
    <2>3. [verb |-> actions[menu.action + 1], target |-> menu.target] \in Ops
      BY <2>2 DEF Ops
    <2>4. op' \in Ops \cup {NoOp} /\ busy' \in BOOLEAN
      BY <1>5, <2>3 DEF Launch, TypeOK
    <2>5. QED
      BY <1>5, <2>1, <2>4 DEF Launch, TypeOK
  <1>6. ASSUME ToDashboard PROVE TypeOK'
    BY <1>1, <1>b, <1>3, <1>6 DEF ToDashboard
  <1>7. CASE KeyServices \/ KeyLogs \/ KeyHelp
    <2>1. CASE KeyServices
      <3>1. [menu EXCEPT !.mode = "target", !.forLogs = FALSE, !.target = 0] \in Menus
        BY <1>c, <1>3
      <3>2. QED
        BY <1>1, <1>4, <2>1, <3>1 DEF KeyServices
    <2>2. CASE KeyLogs
      <3>1. [menu EXCEPT !.mode = "target", !.forLogs = TRUE, !.target = 0] \in Menus
        BY <1>c, <1>3
      <3>2. QED
        BY <1>1, <1>4, <2>2, <3>1 DEF KeyLogs
    <2>3. CASE KeyHelp
      BY <1>1, <1>b, <1>3, <1>4, <2>3 DEF KeyHelp
    <2>4. QED
      BY <1>7, <2>1, <2>2, <2>3
  <1>8. CASE KeyClose
    BY <1>6, <1>8 DEF KeyClose
  <1>9. CASE KeyMove
    <2>1. PICK step \in {1, 2} :
             \/ MenuOnly([menu EXCEPT !.target = (menu.target + step) % 3], touched)
             \/ MenuOnly([menu EXCEPT !.action = (menu.action + step) % 3], touched)
      BY <1>9 DEF KeyMove
    <2>2. (menu.target + step) % 3 \in Cycle /\ (menu.action + step) % 3 \in Cycle
      BY <1>0, SMT DEF Cycle
    <2>3. QED
      BY <1>1, <1>g, <1>4, <2>1, <2>2
  <1>10. CASE TargetEnter
    BY <1>1, <1>d, <1>3, <1>4, <1>10 DEF TargetEnter
  <1>11. CASE TargetEnterLogs
    <2>1. viewer' \in Viewer
      BY <1>11, ViewerLemma DEF TargetEnterLogs, TypeOK
    <2>2. menu' \in Menus
      BY <1>b, <1>3, <1>11 DEF TargetEnterLogs
    <2>3. QED
      BY <1>11, <2>1, <2>2 DEF TargetEnterLogs, TypeOK
  <1>12. CASE ActionEnter
    BY <1>1, <1>e, <1>3, <1>12 DEF ActionEnter, DefaultOK
  <1>13. CASE ActionEnterStart
    BY <1>5, <1>13 DEF ActionEnterStart
  <1>14. CASE ConfirmToggle
    <2>1. (~menu.confirmOK) \in BOOLEAN
      BY <1>0, Zenon
    <2>2. [menu EXCEPT !.confirmOK = ~menu.confirmOK] \in Menus
      BY <1>f, <2>1
    <2>3. QED
      BY <1>1, <1>14, <2>2 DEF ConfirmToggle
  <1>15. CASE ConfirmEnter
    BY <1>5, <1>6, <1>15 DEF ConfirmEnter
  <1>16. QED
    BY <1>7, <1>8, <1>9, <1>10, <1>11, <1>12, <1>13, <1>14, <1>15 DEF MenuKey

(* Every step of the dashboard and of its surroundings keeps the types. *)
LEMMA TypeStep ==
    ASSUME TypeOK, ConstantsAssumption, [Next]_vars
    PROVE  TypeOK'
  <1> USE DEF vars, menuVars, refreshVars, screenVars, opVars, payVars
  <1>0. inflight \in Seq(Collection) /\ collecting \in BOOLEAN /\ Len(inflight) \in Nat
    BY LenProperties DEF TypeOK
  <1>1. ASSUME Tick PROVE TypeOK'
    <2>1. inflight' \in Seq(Collection) /\ collecting' \in BOOLEAN
      BY <1>0, <1>1, RefreshLemma DEF Tick
    <2>2. QED
      BY <1>1, <2>1 DEF TypeOK, Tick
  <1>2. CASE KeyRefresh
    BY <1>1, <1>2 DEF KeyRefresh
  <1>3. CASE Collections
    <2>1. PICK i \in 1 .. Len(inflight) : ReadUnits(i) \/ ReadMiner(i)
      BY <1>3 DEF Collections
    <2>2. inflight' \in Seq(Collection)
      BY <2>1, ReadsType
    <2>3. world' \in World
      <3>1. world \in World /\ world.rejected .. MaxRejected \subseteq Nat
        BY SMT DEF TypeOK, World, ConstantsAssumption
      <3>2. CASE MinerAnswers(i)
        BY <3>1, <3>2 DEF MinerAnswers, World
      <3>3. QED
        BY <2>1, <3>1, <3>2 DEF ReadUnits, ReadMiner, MinerFails
    <2>4. QED
      BY <2>1, <2>2, <2>3 DEF TypeOK, ReadUnits, ReadMiner, MinerAnswers, MinerFails
  <1>4. CASE Snapshots
    <2>1. PICK i \in 1 .. Len(inflight) : SnapshotMsg(i)
      BY <1>4 DEF Snapshots
    <2>2. inflight[i] \in Collection
      BY <1>0, ElementOfSeq
    <2>3. inflight' \in Seq(Collection)
      BY <1>0, <2>1, WithoutLemma DEF SnapshotMsg
    <2>a. PICK b \in BOOLEAN, ok \in BOOLEAN :
               /\ snap' = Result(inflight[i], ok)
               /\ Record(Result(inflight[i], ok), b)
      BY <2>1 DEF SnapshotMsg, Confirmations, Parted
    <2>4. Result(inflight[i], ok) \in Snapshot
      BY <2>2, ResultLemma
    <2>5. history' \in Seq(Point) /\ Len(history') <= HistoryLen /\ lastInv' \in Nat
      BY <2>a, <2>4, RecordLemma DEF TypeOK
    <2>6. shown' \in BOOLEAN
      BY <2>1, <2>2 DEF SnapshotMsg, Collection
    <2>7. QED
      BY <2>1, <2>3, <2>a, <2>4, <2>5, <2>6 DEF TypeOK, SnapshotMsg, CollectingAfter
  <1>5. ASSUME FetchPayouts PROVE paying' \in BOOLEAN /\ fetches' \in Seq({"grep"})
    <2>1. "grep" \in {"grep"}
      OBVIOUS
    <2>2. CASE MayFetch
      <3>1. fetches \in Seq({"grep"})
        BY DEF TypeOK
      <3>2. Append(fetches, "grep") \in Seq({"grep"})
        BY <2>1, <3>1, AppendProperties
      <3>3. QED
        BY <1>5, <2>2, <3>2 DEF FetchPayouts
    <2>3. CASE ~MayFetch
      BY <1>5, <2>3 DEF FetchPayouts, TypeOK
    <2>4. QED
      BY <2>2, <2>3
  <1>6. CASE PayTick
    BY <1>5, <1>6 DEF TypeOK, PayTick
  <1>7. CASE KeyPayouts
    BY <1>5, <1>7 DEF TypeOK, KeyPayouts, Modes
  <1>8. CASE PayoutsRefetch
    BY <1>5, <1>8 DEF TypeOK, PayoutsRefetch
  <1>9. CASE PayoutsMsg
    <2>1. fetches' \in Seq({"grep"})
      BY <1>9, HeadTailProperties DEF PayoutsMsg, TypeOK
    <2>2. QED
      BY <1>9, <2>1 DEF PayoutsMsg, TypeOK, PayingAfter
  <1>10. CASE OpMsg
    <2> DEFINE old == [k \in 1 .. Len(inflight) |-> [inflight[k] EXCEPT !.afterOp = FALSE]]
    <2>1. \A k \in 1 .. Len(inflight) : [inflight[k] EXCEPT !.afterOp = FALSE] \in Collection
      BY <1>0, ElementOfSeq, TagLemma
    <2>2. old \in [1 .. Len(inflight) -> Collection]
      BY <2>1
    <2>3. old \in Seq(Collection)
      BY <1>0, <2>2, SeqIntro
    <2>4. Refresh(old)
      BY <1>10 DEF OpMsg
    <2>5. inflight' \in Seq(Collection) /\ collecting' \in BOOLEAN
      BY <1>0, <2>3, <2>4, RefreshLemma
    <2>6. shown' \in BOOLEAN
      BY <1>10 DEF OpMsg, TypeOK
    <2>7. QED
      BY <1>10, <2>5, <2>6 DEF OpMsg, TypeOK, BusyAfter
  <1>11. CASE ViewerOpens
    <2>1. viewer' \in Viewer
      BY <1>11, ViewerLemma DEF ViewerOpens, TypeOK
    <2>2. QED
      BY <1>11, <2>1 DEF ViewerOpens, TypeOK
  <1>12. CASE ViewerCloses
    <2>1. viewer' \in Viewer
      BY <1>12, ViewerLemma DEF ViewerCloses, TypeOK
    <2>2. QED
      BY <1>12, <2>1 DEF ViewerCloses, TypeOK
  <1>13. CASE LogsMsg
    <2>1. viewer' \in Viewer
      BY <1>13, ViewerLemma DEF LogsMsg, TypeOK
    <2>2. inflight' \in Seq(Collection) /\ collecting' \in BOOLEAN
      BY <1>0, <1>13, RefreshLemma DEF LogsMsg
    <2>3. QED
      BY <1>13, <2>1, <2>2 DEF LogsMsg, TypeOK
  <1>14. CASE KeyQuit \/ QuitMsg \/ Exited \/ UNCHANGED vars
    BY <1>14 DEF KeyQuit, QuitMsg, Exited, TypeOK
  <1>15. CASE UnitStarts \/ UnitStops
    <2>1. world' \in World
      <3>1. /\ world.session + 1 \in Nat /\ world.rejected + 1 \in Nat
            /\ 0 \in Nat /\ world \in World
        BY SMT DEF TypeOK, World
      <3>2. /\ [session |-> world.session + 1, running |-> TRUE, rejected |-> 0] \in World
            /\ [world EXCEPT !.running = FALSE] \in World
            /\ [world EXCEPT !.rejected = @ + 1] \in World
        BY <3>1 DEF World
      <3>3. QED
        BY <1>15, <3>2 DEF UnitStarts, UnitStops
    <2>2. QED
      BY <1>15, <2>1 DEF UnitStarts, UnitStops, TypeOK
  <1>16. CASE MenuKey
    BY <1>16, MenuType
  <1>17. QED
    BY <1>1, <1>2, <1>3, <1>4, <1>6, <1>7, <1>8, <1>9, <1>10, <1>11, <1>12, <1>13,
       <1>14, <1>15, <1>16 DEF Next

(* TypeOK holds in every reachable state of the dashboard (internal/tui/tui.go);  *)
(* in particular the chart never exceeds its capacity.                            *)
THEOREM TypeCorrect == Spec => []TypeOK
  <1>1. ASSUME Init PROVE TypeOK
    <2>1. Fresh \in Collection
      BY SMT DEF Fresh, Collection, UnitsRead, MinerRead
    <2>2. NoSnapshot \in Snapshot
      BY SMT DEF NoSnapshot, Snapshot
    <2>3. <<Fresh>> \in Seq(Collection) /\ <<"grep">> \in Seq({"grep"})
      BY <2>1, SMT
    <2>4. <<>> \in Seq(Point) /\ Len(<<>>) <= HistoryLen
      BY EmptySeq, ConstantsAssumption, SMT DEF ConstantsAssumption
    <2>5. menu \in [mode : Modes, forLogs : BOOLEAN, target : Cycle,
                   action : Cycle, confirmOK : BOOLEAN]
      BY <1>1, SMT DEF Init, Modes, Cycle
    <2>6. viewer \in Viewer /\ world \in World
      BY <1>1, SMT DEF Init, Viewer, World
    <2>7. shown \in BOOLEAN /\ lastInv \in Nat
      BY <1>1, SMT DEF Init
    <2>8. QED
      BY <1>1, <2>2, <2>3, <2>4, <2>5, <2>6, <2>7 DEF Init, TypeOK
  <1>2. TypeOK /\ [Next]_vars => TypeOK'
    BY TypeStep, ConstantsAssumption
  <1>3. QED
    BY <1>1, <1>2, PTL DEF Spec

-----------------------------------------------------------------------------
(* The guards and the commands in flight. *)

(* A key of the menus starts no collection and no fetch, and touches the control  *)
(* operation only by launching one.                                               *)
LEMMA MenuFrame ==
    ASSUME MenuKey
    PROVE  /\ UNCHANGED <<refreshVars, screenVars, payVars>>
           /\ Launch \/ UNCHANGED opVars
  BY DEF MenuKey, KeyServices, KeyLogs, KeyHelp, KeyClose, KeyMove, TargetEnter,
     TargetEnterLogs, ActionEnter, ActionEnterStart, ConfirmToggle, ConfirmEnter,
     MenuOnly, ToDashboard, Launch, refreshVars, screenVars, opVars, payVars

(* A step leaves the collections in flight alone, starts one with the guard free, *)
(* or delivers one and frees the guard.                                           *)
LEMMA CollectionSteps ==
    ASSUME TypeOK, [Next]_vars
    PROVE  \/ collecting' = collecting /\ Len(inflight') = Len(inflight)
           \/ ~collecting /\ collecting' /\ Len(inflight') = Len(inflight) + 1
           \/ ~collecting' /\ Len(inflight') = Len(inflight) - 1
  <1> USE DEF vars, menuVars, refreshVars, screenVars, opVars, payVars
  <1>0. inflight \in Seq(Collection) /\ collecting \in BOOLEAN /\ Len(inflight) \in Nat
    BY LenProperties DEF TypeOK
  <1>1. ASSUME NEW earlier \in Seq(Collection), Len(earlier) = Len(inflight), Refresh(earlier)
        PROVE  \/ collecting' = collecting /\ Len(inflight') = Len(inflight)
               \/ ~collecting /\ collecting' /\ Len(inflight') = Len(inflight) + 1
    BY <1>0, <1>1, RefreshLemma
  <1>2. CASE Tick \/ KeyRefresh \/ LogsMsg
    BY <1>0, <1>1, <1>2 DEF Tick, KeyRefresh, LogsMsg
  <1>3. CASE Collections
    BY <1>3, ReadsType, ConstantsAssumption DEF Collections, ReadUnits, ReadMiner,
       MinerAnswers, MinerFails
  <1>4. CASE Snapshots
    <2>1. PICK i \in 1 .. Len(inflight) : SnapshotMsg(i)
      BY <1>4 DEF Snapshots
    <2>2. QED
      BY <1>0, <2>1, WithoutLemma DEF SnapshotMsg, CollectingAfter
  <1>5. CASE OpMsg
    <2> DEFINE old == [k \in 1 .. Len(inflight) |-> [inflight[k] EXCEPT !.afterOp = FALSE]]
    <2>1. \A k \in 1 .. Len(inflight) : [inflight[k] EXCEPT !.afterOp = FALSE] \in Collection
      BY <1>0, ElementOfSeq, TagLemma
    <2>2. old \in [1 .. Len(inflight) -> Collection]
      BY <2>1
    <2>3. old \in Seq(Collection) /\ Len(old) = Len(inflight)
      BY <1>0, <2>2, SeqIntro
    <2>4. Refresh(old)
      BY <1>5 DEF OpMsg
    <2>5. QED
      BY <1>1, <2>3, <2>4
  <1>6. CASE PayTick \/ KeyPayouts \/ PayoutsRefetch \/ PayoutsMsg
    BY <1>6 DEF PayTick, KeyPayouts, PayoutsRefetch, PayoutsMsg
  <1>7. CASE ViewerOpens \/ ViewerCloses \/ KeyQuit \/ QuitMsg \/ Exited
             \/ UnitStarts \/ UnitStops \/ UNCHANGED vars
    BY <1>7 DEF ViewerOpens, ViewerCloses, KeyQuit, QuitMsg, Exited, UnitStarts,
       UnitStops
  <1>8. CASE MenuKey
    BY <1>8, MenuFrame
  <1>9. QED
    BY <1>2, <1>3, <1>4, <1>5, <1>6, <1>7, <1>8 DEF Next

(* The same of the payout fetches. *)
LEMMA FetchSteps ==
    ASSUME TypeOK, [Next]_vars
    PROVE  \/ paying' = paying /\ Len(fetches') = Len(fetches)
           \/ ~paying /\ paying' /\ Len(fetches') = Len(fetches) + 1
           \/ ~paying' /\ Len(fetches') = Len(fetches) - 1
  <1> USE DEF vars, menuVars, refreshVars, screenVars, opVars, payVars
  <1>0. fetches \in Seq({"grep"}) /\ paying \in BOOLEAN
    BY DEF TypeOK
  <1>1. ASSUME FetchPayouts
        PROVE  \/ paying' = paying /\ Len(fetches') = Len(fetches)
               \/ ~paying /\ paying' /\ Len(fetches') = Len(fetches) + 1
    <2>1. "grep" \in {"grep"}
      OBVIOUS
    <2>2. Len(Append(fetches, "grep")) = Len(fetches) + 1
      BY <1>0, <2>1, AppendProperties
    <2>3. QED
      BY <1>1, <2>2 DEF FetchPayouts, MayFetch
  <1>2. CASE PayTick \/ KeyPayouts \/ PayoutsRefetch
    BY <1>1, <1>2 DEF PayTick, KeyPayouts, PayoutsRefetch
  <1>3. CASE PayoutsMsg
    BY <1>0, <1>3, HeadTailProperties DEF PayoutsMsg, PayingAfter
  <1>4. CASE \/ Tick \/ KeyRefresh \/ Collections \/ Snapshots \/ OpMsg \/ ViewerOpens
             \/ ViewerCloses \/ LogsMsg \/ KeyQuit \/ QuitMsg \/ Exited \/ UnitStarts
             \/ UnitStops \/ UNCHANGED vars
    BY <1>4 DEF Tick, KeyRefresh, Collections, ReadUnits, ReadMiner,
       MinerAnswers, MinerFails, Snapshots, SnapshotMsg,
       OpMsg, ViewerOpens, ViewerCloses, LogsMsg, KeyQuit, QuitMsg, Exited, UnitStarts,
       UnitStops
  <1>5. CASE MenuKey
    BY <1>5, MenuFrame
  <1>6. QED
    BY <1>2, <1>3, <1>4, <1>5 DEF Next

(* An operation and its guard come and go together. *)
LEMMA OpSteps ==
    ASSUME TypeOK, [Next]_vars
    PROVE  \/ UNCHANGED opVars
           \/ ~busy' /\ op' = NoOp
           \/ MenuKey /\ Launch /\ ~busy /\ busy' /\ op' # NoOp
  <1> USE DEF vars, menuVars, refreshVars, screenVars, opVars, payVars
  <1>1. CASE OpMsg
    BY <1>1 DEF OpMsg, BusyAfter
  <1>2. CASE \/ Tick \/ KeyRefresh \/ Collections \/ Snapshots \/ PayTick \/ KeyPayouts
             \/ PayoutsRefetch \/ PayoutsMsg \/ ViewerOpens \/ ViewerCloses \/ LogsMsg
             \/ KeyQuit \/ QuitMsg \/ Exited \/ UnitStarts \/ UnitStops
             \/ UNCHANGED vars
    BY <1>2 DEF Tick, KeyRefresh, Collections, ReadUnits, ReadMiner,
       MinerAnswers, MinerFails, Snapshots, SnapshotMsg,
       PayTick, KeyPayouts, PayoutsRefetch, PayoutsMsg, ViewerOpens, ViewerCloses,
       LogsMsg, KeyQuit, QuitMsg, Exited, UnitStarts, UnitStops
  <1>3. CASE MenuKey
    <2>1. Launch \/ UNCHANGED opVars
      BY <1>3, MenuFrame
    <2>2. actions[menu.action + 1] # "none"
      BY SMT DEF TypeOK, actions, Cycle
    <2>3. QED
      BY <1>3, <2>1, <2>2 DEF Launch, Idle, NoOp
  <1>4. QED
    BY <1>1, <1>2, <1>3 DEF Next

GuardsInv == GuardsOwned /\ AtMostTwo

(* GuardsInv is inductive: an unguarded collection exists only from Init on, and  *)
(* every delivery both frees the guard and removes a collection.                  *)
LEMMA GuardsStep ==
    ASSUME TypeOK, GuardsInv, [Next]_vars
    PROVE  GuardsInv'
  <1>0. TypeOK'
    BY TypeStep, ConstantsAssumption
  <1>1. /\ Len(inflight) \in Nat /\ Len(inflight') \in Nat
        /\ Len(fetches) \in Nat /\ Len(fetches') \in Nat
    BY <1>0, LenProperties DEF TypeOK
  <1>2. /\ (inflight = <<>>) <=> Len(inflight) = 0
        /\ (inflight' = <<>>) <=> Len(inflight') = 0
        /\ (fetches = <<>>) <=> Len(fetches) = 0
        /\ (fetches' = <<>>) <=> Len(fetches') = 0
    BY <1>0, EmptySeq DEF TypeOK
  <1>3. collecting' => inflight' # <<>>
    <2>1. collecting => Len(inflight) # 0
      BY <1>2 DEF GuardsInv, GuardsOwned
    <2>2. Len(inflight) + 1 # 0
      BY <1>1, SMT
    <2>3. collecting' => Len(inflight') # 0
      BY <2>1, <2>2, CollectionSteps, Zenon
    <2>4. QED
      BY <1>2, <2>3
  <1>4. Len(inflight') <= (IF collecting' THEN 2 ELSE 1)
    BY <1>1, CollectionSteps, SMT DEF GuardsInv, AtMostTwo
  <1>5. paying' => fetches' # <<>>
    <2>1. paying => Len(fetches) # 0
      BY <1>2 DEF GuardsInv, GuardsOwned
    <2>2. Len(fetches) + 1 # 0
      BY <1>1, SMT
    <2>3. paying' => Len(fetches') # 0
      BY <2>1, <2>2, FetchSteps, Zenon
    <2>4. QED
      BY <1>2, <2>3
  <1>6. Len(fetches') <= (IF paying' THEN 2 ELSE 1)
    BY <1>1, FetchSteps, SMT DEF GuardsInv, AtMostTwo
  <1>7. busy' <=> op' # NoOp
    BY OpSteps DEF GuardsInv, GuardsOwned, opVars
  <1>8. QED
    BY <1>3, <1>4, <1>5, <1>6, <1>7 DEF GuardsInv, GuardsOwned, AtMostTwo

(* The guards of refresh, fetchPayouts and launch are never left set without a    *)
(* command in flight that clears them.                                            *)
THEOREM GuardsCorrect == Spec => []GuardsOwned
  <1>1. Init => GuardsInv
    BY SMT DEF Init, GuardsInv, GuardsOwned, AtMostTwo
  <1>2. TypeOK /\ GuardsInv /\ [Next]_vars => GuardsInv'
    BY GuardsStep
  <1>3. GuardsInv => GuardsOwned
    BY DEF GuardsInv
  <1>4. QED
    BY <1>1, <1>2, <1>3, TypeCorrect, PTL DEF Spec

(* At most two collections, and at most two payout fetches, overlap, and only     *)
(* while the guarded one of each pair runs.                                       *)
THEOREM OverlapBounded == Spec => []AtMostTwo
  <1>1. Init => GuardsInv
    BY SMT DEF Init, GuardsInv, GuardsOwned, AtMostTwo
  <1>2. TypeOK /\ GuardsInv /\ [Next]_vars => GuardsInv'
    BY GuardsStep
  <1>3. GuardsInv => AtMostTwo
    BY DEF GuardsInv
  <1>4. QED
    BY <1>1, <1>2, <1>3, TypeCorrect, PTL DEF Spec

Exclusive == Len(inflight) = (IF collecting THEN 1 ELSE 0)

(* Once no collection is in flight, collections exclude each other for ever: the  *)
(* guard that Init leaves down is then in step with the collections again.        *)
THEOREM DrainedExclusive == Spec => ExclusiveOnceDrained
  <1>1. Init => GuardsInv
    BY SMT DEF Init, GuardsInv, GuardsOwned, AtMostTwo
  <1>2. TypeOK /\ GuardsInv /\ [Next]_vars => GuardsInv'
    BY GuardsStep
  <1>3. GuardsInv /\ inflight = <<>> => Exclusive
    BY EmptySeq, SMT DEF GuardsInv, GuardsOwned, Exclusive
  <1>4. TypeOK /\ Exclusive /\ [Next]_vars => Exclusive'
    <2>1. SUFFICES ASSUME TypeOK, Exclusive, [Next]_vars
                   PROVE  Exclusive'
      OBVIOUS
    <2>2. TypeOK'
      BY <2>1, TypeStep, ConstantsAssumption
    <2>3. Len(inflight) \in Nat /\ Len(inflight') \in Nat
      BY <2>1, <2>2, LenProperties DEF TypeOK
    <2>4. QED
      BY <2>1, <2>3, CollectionSteps, SMT DEF Exclusive
  <1>5. Exclusive => Len(inflight) <= 1
    BY SMT DEF Exclusive
  <1>6. QED
    BY <1>1, <1>2, <1>3, <1>4, <1>5, TypeCorrect, PTL DEF Spec, ExclusiveOnceDrained

(* The collections are a refresher, and so are the payout fetches: every handler  *)
(* that refreshes, and every delivery, is one of its two steps or leaves it alone.*)
THEOREM RefreshersImplemented == Spec => SingleFlight
  <1>1. Init => Collecting!RefresherInit /\ Paying!RefresherInit
    BY SMT DEF Init, Collecting!RefresherInit, Paying!RefresherInit
  <1>2. TypeOK /\ GuardsInv /\ [Next]_vars => [Collecting!RefresherNext]_<<collecting, Len(inflight)>>
    <2>1. SUFFICES ASSUME TypeOK, GuardsInv, [Next]_vars
                   PROVE  [Collecting!RefresherNext]_<<collecting, Len(inflight)>>
      OBVIOUS
    <2>2. TypeOK'
      BY <2>1, TypeStep, ConstantsAssumption
    <2>3. Len(inflight) \in Nat /\ Len(inflight') \in Nat
      BY <2>1, <2>2, LenProperties DEF TypeOK
    <2>4. CASE collecting' = collecting /\ Len(inflight') = Len(inflight)
      BY <2>4
    <2>5. CASE ~collecting /\ collecting' /\ Len(inflight') = Len(inflight) + 1
      <3>1. Collecting!Start
        BY <2>2, <2>5, Zenon DEF Collecting!Start, TypeOK
      <3>2. QED
        BY <3>1 DEF Collecting!RefresherNext
    <2>6. CASE ~collecting' /\ Len(inflight') = Len(inflight) - 1
      <3>1. Len(inflight) > 0
        BY <2>3, <2>6, SMT
      <3>2. Collecting!Deliver
        BY <2>2, <2>6, <3>1, Zenon DEF Collecting!Deliver, TypeOK
      <3>3. QED
        BY <3>2 DEF Collecting!RefresherNext
    <2>7. QED
      BY <2>1, <2>4, <2>5, <2>6, CollectionSteps
  <1>3. TypeOK /\ GuardsInv /\ [Next]_vars => [Paying!RefresherNext]_<<paying, Len(fetches)>>
    <2>1. SUFFICES ASSUME TypeOK, GuardsInv, [Next]_vars
                   PROVE  [Paying!RefresherNext]_<<paying, Len(fetches)>>
      OBVIOUS
    <2>2. TypeOK'
      BY <2>1, TypeStep, ConstantsAssumption
    <2>3. Len(fetches) \in Nat /\ Len(fetches') \in Nat
      BY <2>1, <2>2, LenProperties DEF TypeOK
    <2>4. CASE paying' = paying /\ Len(fetches') = Len(fetches)
      BY <2>4
    <2>5. CASE ~paying /\ paying' /\ Len(fetches') = Len(fetches) + 1
      <3>1. Paying!Start
        BY <2>2, <2>5, Zenon DEF Paying!Start, TypeOK
      <3>2. QED
        BY <3>1 DEF Paying!RefresherNext
    <2>6. CASE ~paying' /\ Len(fetches') = Len(fetches) - 1
      <3>1. Len(fetches) > 0
        BY <2>3, <2>6, SMT
      <3>2. Paying!Deliver
        BY <2>2, <2>6, <3>1, Zenon DEF Paying!Deliver, TypeOK
      <3>3. QED
        BY <3>2 DEF Paying!RefresherNext
    <2>7. QED
      BY <2>1, <2>4, <2>5, <2>6, FetchSteps
  <1>4. Init => GuardsInv
    BY SMT DEF Init, GuardsInv, GuardsOwned, AtMostTwo
  <1>5. TypeOK /\ GuardsInv /\ [Next]_vars => GuardsInv'
    BY GuardsStep
  <1>6. QED
    BY <1>1, <1>2, <1>3, <1>4, <1>5, TypeCorrect, PTL
       DEF Spec, SingleFlight, Collecting!RefresherSpec, Paying!RefresherSpec

-----------------------------------------------------------------------------
(* The menus. *)

\* Beyond the property itself: the services menu opens only while no operation
\* runs, and none starts under an open menu; OK is selected only by a key.
MenuInv ==
    /\ NoOperationDropped
    /\ menu.mode = "target" /\ ~menu.forLogs => ~busy
    /\ menu.mode = "confirm" /\ menu.confirmOK => touched

(* Every key and every message keeps MenuInv. *)
LEMMA MenuStep ==
    ASSUME TypeOK, MenuInv, [Next]_vars
    PROVE  MenuInv'
  <1> USE DEF MenuInv, NoOperationDropped, Idle
  <1>0. menu \in [mode : Modes, forLogs : BOOLEAN, target : Cycle,
                  action : Cycle, confirmOK : BOOLEAN]
    BY DEF TypeOK
  <1>1. CASE UNCHANGED <<menuVars, opVars>>
    BY <1>1 DEF menuVars, opVars
  <1>2. CASE OpMsg
    BY <1>2 DEF OpMsg, BusyAfter, menuVars
  <1>3. CASE KeyPayouts
    BY <1>0, <1>3 DEF KeyPayouts, opVars
  <1>4. ASSUME Launch PROVE MenuInv'
    BY <1>0, <1>4 DEF Launch
  <1>5. ASSUME ToDashboard PROVE MenuInv'
    BY <1>0, <1>5 DEF ToDashboard, MenuOnly, opVars
  <1>6. CASE MenuKey
    <2>1. CASE KeyServices
      BY <1>0, <2>1 DEF KeyServices, MayControl, MenuOnly, opVars
    <2>2. CASE KeyLogs
      BY <1>0, <2>2 DEF KeyLogs, MenuOnly, opVars
    <2>3. CASE KeyHelp
      BY <1>0, <2>3 DEF KeyHelp, MenuOnly, opVars
    <2>4. CASE KeyClose
      BY <1>5, <2>4 DEF KeyClose
    <2>5. CASE KeyMove
      BY <1>0, <2>5 DEF KeyMove, MenuOnly, opVars
    <2>6. CASE TargetEnter
      BY <1>0, <2>6 DEF TargetEnter, Key, MenuOnly, opVars
    <2>7. CASE TargetEnterLogs
      BY <1>0, <2>7 DEF TargetEnterLogs, opVars
    <2>8. CASE ActionEnter
      BY <1>0, <2>8 DEF ActionEnter, Key, DefaultOK, MenuOnly, opVars
    <2>9. CASE ActionEnterStart
      BY <1>4, <2>9 DEF ActionEnterStart
    <2>10. CASE ConfirmToggle
      BY <1>0, <2>10 DEF ConfirmToggle, Key, MenuOnly, opVars
    <2>11. CASE ConfirmEnter
      BY <1>4, <1>5, <2>11 DEF ConfirmEnter
    <2>12. QED
      BY <1>6, <2>1, <2>2, <2>3, <2>4, <2>5, <2>6, <2>7, <2>8, <2>9, <2>10, <2>11 DEF MenuKey
  <1>7. CASE \/ Tick \/ KeyRefresh \/ Collections \/ Snapshots \/ PayTick
             \/ PayoutsRefetch \/ PayoutsMsg \/ ViewerOpens \/ ViewerCloses \/ LogsMsg
             \/ KeyQuit \/ QuitMsg \/ Exited \/ UnitStarts \/ UnitStops
             \/ UNCHANGED vars
    BY <1>1, <1>7 DEF Tick, KeyRefresh, Collections, ReadUnits, ReadMiner,
       MinerAnswers, MinerFails, Snapshots,
       SnapshotMsg, PayTick, PayoutsRefetch, PayoutsMsg, ViewerOpens, ViewerCloses,
       LogsMsg, KeyQuit, QuitMsg, Exited, UnitStarts, UnitStops, vars
  <1>8. QED
    BY <1>2, <1>3, <1>6, <1>7 DEF Next

(* An action that the menus let the user choose is launched, never dropped by the *)
(* busy guard of launch (SYS-09).                                                 *)
THEOREM MenuCorrect == Spec => []NoOperationDropped
  <1>1. Init => MenuInv
    BY SMT DEF Init, MenuInv, NoOperationDropped, Idle
  <1>2. TypeOK /\ MenuInv /\ [Next]_vars => MenuInv'
    BY MenuStep
  <1>3. MenuInv => NoOperationDropped
    BY DEF MenuInv
  <1>4. QED
    BY <1>1, <1>2, <1>3, TypeCorrect, PTL DEF Spec

(* A stop or a restart is launched only by a confirmation whose selection the     *)
(* user has moved (UI-03).                                                        *)
THEOREM StopConfirmed == Spec => StopIsConfirmed
  <1> DEFINE Started == op = NoOp /\ op' \notin {NoOp} \cup [verb : {"start"}, target : Cycle]
  <1>1. Init => MenuInv
    BY SMT DEF Init, MenuInv, NoOperationDropped, Idle
  <1>2. TypeOK /\ MenuInv /\ [Next]_vars => MenuInv'
    BY MenuStep
  <1>3. TypeOK /\ MenuInv /\ [Next]_vars => [Started => touched]_vars
    <2>1. SUFFICES ASSUME TypeOK, MenuInv, [Next]_vars, Started
                   PROVE  touched
      OBVIOUS
    <2>2. MenuKey /\ Launch
      BY <2>1, OpSteps DEF opVars
    <2>3. menu.target \in Cycle /\ touched \in BOOLEAN
      BY <2>1 DEF TypeOK
    <2>4. CASE ActionEnterStart
      <3>1. op' = [verb |-> "start", target |-> menu.target] \/ op' = op
        BY <2>4 DEF ActionEnterStart, Launch, opVars
      <3>2. QED
        BY <2>1, <2>3, <3>1
    <2>5. CASE ConfirmEnter /\ menu.confirmOK
      BY <2>1, <2>5 DEF ConfirmEnter, Key, MenuInv
    <2>6. CASE ~(ActionEnterStart \/ (ConfirmEnter /\ menu.confirmOK))
      BY <2>1, <2>2, <2>6 DEF MenuKey, KeyServices, KeyLogs, KeyHelp, KeyClose, KeyMove,
         TargetEnter, TargetEnterLogs, ActionEnter, ConfirmToggle, ConfirmEnter, MenuOnly,
         ToDashboard, opVars
    <2>7. QED
      BY <2>4, <2>5, <2>6
  <1>4. QED
    BY <1>1, <1>2, <1>3, TypeCorrect, PTL DEF Spec, StopIsConfirmed

-----------------------------------------------------------------------------
(* The chart. *)

Proven(p) == p.value /\ p.proven

OneSession(p, q) == p.inv = q.inv /\ (p.of = q.of \/ p.brief \/ q.brief)

Pairs(h) == \A k \in 1 .. Len(h) - 1 : Proven(h[k]) /\ Proven(h[k + 1]) => OneSession(h[k], h[k + 1])

\* A point recorded under an InvocationID is of its process, as far as uptimes can tell.
Under(p, inv) == p.inv = inv /\ inv # 0 /\ (p.of = inv \/ p.brief)

\* The last point, if proven, is of the session that the next snapshot is compared with.
LastOf(h, inv) == Len(h) # 0 /\ Proven(h[Len(h)]) => Under(h[Len(h)], inv)

\* systemd gives a running unit an InvocationID, so no collection has seen the unit
\* active under the empty one: the empty lastInv is never that of a proven point.
Named(c) == c.units.active => c.units.inv # 0
AllNamed(f) == \A i \in 1 .. Len(f) : Named(f[i])

ChartInv ==
    /\ world.running => world.session # 0
    /\ AllNamed(inflight)
    /\ Pairs(history)
    /\ LastOf(history, lastInv)

(* A point appended to a chart whose last proven point is of the same session, or  *)
(* that is itself not proven, keeps neighbours of one session.                     *)
LEMMA AppendPairs ==
    ASSUME NEW h \in Seq(Point), NEW p \in Point, Pairs(h),
           Len(h) # 0 /\ Proven(h[Len(h)]) /\ Proven(p) => OneSession(h[Len(h)], p)
    PROVE  /\ Append(h, p) \in Seq(Point) /\ Len(Append(h, p)) = Len(h) + 1
           /\ Append(h, p)[Len(h) + 1] = p
           /\ Pairs(Append(h, p))
  <1> DEFINE g == Append(h, p)
  <1>1. /\ g \in Seq(Point) /\ Len(g) = Len(h) + 1 /\ g[Len(h) + 1] = p
        /\ \A i \in 1 .. Len(h) : g[i] = h[i]
    BY AppendProperties
  <1>2. Len(h) \in Nat
    BY LenProperties
  <1> HIDE DEF g
  <1>3. ASSUME NEW k \in 1 .. Len(g) - 1, Proven(g[k]), Proven(g[k + 1])
        PROVE  OneSession(g[k], g[k + 1])
    <2>1. k \in 1 .. Len(h) /\ g[k] = h[k]
      BY <1>1, <1>2, SMT
    <2>2. CASE k = Len(h)
      <3>1. Len(h) # 0 /\ g[k] = h[Len(h)] /\ g[k + 1] = p
        BY <1>1, <2>1, <2>2, SMT
      <3>2. QED
        BY <1>3, <3>1
    <2>3. CASE k # Len(h)
      <3>1. k \in 1 .. Len(h) - 1 /\ k + 1 \in 1 .. Len(h)
        BY <1>2, <2>1, <2>3, SMT
      <3>2. g[k + 1] = h[k + 1]
        BY <1>1, <3>1
      <3>3. QED
        BY <1>3, <2>1, <3>1, <3>2 DEF Pairs
    <2>4. QED
      BY <2>2, <2>3
  <1>4. Pairs(g)
    BY <1>3, Zenon DEF Pairs
  <1>5. QED
    BY <1>1, <1>4 DEF g

(* What is left of a trimmed chart has the neighbours and the last point it had.  *)
LEMMA SuffixPairs ==
    ASSUME NEW h \in Seq(Point), NEW k \in 1 .. Len(h), NEW inv, Pairs(h), LastOf(h, inv)
    PROVE  Pairs(SubSeq(h, k, Len(h))) /\ LastOf(SubSeq(h, k, Len(h)), inv)
  <1> DEFINE g == SubSeq(h, k, Len(h))
  <1>1. /\ Len(g) = Len(h) - k + 1
        /\ \A i \in 1 .. Len(h) - k + 1 : g[i] = h[k + i - 1]
    BY SuffixIntro
  <1>2. Len(h) \in Nat
    BY LenProperties
  <1> HIDE DEF g
  <1>3. ASSUME NEW i \in 1 .. Len(g) - 1, Proven(g[i]), Proven(g[i + 1])
        PROVE  OneSession(g[i], g[i + 1])
    <2>1. i \in 1 .. Len(h) - k + 1 /\ i + 1 \in 1 .. Len(h) - k + 1
      BY <1>1, <1>2, SMT
    <2>2. k + i - 1 \in 1 .. Len(h) - 1 /\ k + (i + 1) - 1 = (k + i - 1) + 1
      BY <1>1, <1>2, SMT
    <2>3. g[i] = h[k + i - 1] /\ g[i + 1] = h[k + (i + 1) - 1]
      BY <1>1, <2>1
    <2>4. g[i + 1] = h[(k + i - 1) + 1]
      BY <2>2, <2>3
    <2>5. QED
      BY <1>3, <2>2, <2>3, <2>4, Zenon DEF Pairs
  <1>4. Pairs(g)
    BY <1>3, Zenon DEF Pairs
  <1>5. g[Len(g)] = h[Len(h)] /\ Len(h) # 0
    <2>1. Len(g) \in 1 .. Len(h) - k + 1 /\ k + Len(g) - 1 = Len(h) /\ Len(h) # 0
      BY <1>1, <1>2, SMT
    <2>2. g[Len(g)] = h[k + Len(g) - 1]
      BY <1>1, <2>1
    <2>3. QED
      BY <2>1, <2>2
  <1>6. LastOf(g, inv)
    BY <1>5 DEF LastOf
  <1>7. QED
    BY <1>4, <1>6 DEF g

(* record keeps the chart: a gap is put before a proven point of a session other  *)
(* than the one the last point is of.                                             *)
LEMMA RecordChart ==
    ASSUME history \in Seq(Point), lastInv \in Nat, Pairs(history), LastOf(history, lastInv),
           NEW c \in Collection, Named(c),
           NEW b \in BOOLEAN, NEW ok \in Confirmations(c, b), Record(Result(c, ok), b)
    PROVE  Pairs(history') /\ LastOf(history', lastInv')
  <1> DEFINE s == Result(c, ok)
             base == IF NewSession(s) THEN Append(history, Gap) ELSE history
  <1>1. s \in Snapshot
    BY ResultLemma DEF Confirmations
  <1>2. Plot(s, b) \in Point /\ Gap \in Point /\ ~Proven(Gap)
    BY <1>1, SMT DEF Plot, Gap, Point, Snapshot, Proven
  <1>3. Proven(Plot(s, b)) => Under(Plot(s, b), s.inv)
    <2>1. SUFFICES ASSUME Proven(Plot(s, b)) PROVE Under(Plot(s, b), s.inv)
      OBVIOUS
    <2>2. s.current
      BY <2>1 DEF Plot, Proven, Gap
    <2>3. /\ Plot(s, b).of = s.of /\ Plot(s, b).inv = s.inv /\ Plot(s, b).brief = b
          /\ s.proven
      BY <2>1, <2>2 DEF Plot, Proven
    <2>4. /\ s.inv = c.units.inv /\ s.of = c.miner.of
          /\ c.units.active /\ c.miner.st = "answered" /\ ok
      BY <2>2, <2>3 DEF Result
    <2>5. c.miner.of = c.units.inv \/ b
      BY <2>4 DEF Confirmations, Parted
    <2>6. QED
      BY <2>3, <2>4, <2>5 DEF Named, Under
  <1> HIDE DEF s
  <1>4. /\ base \in Seq(Point) /\ Pairs(base)
        /\ Len(base) # 0 /\ Proven(base[Len(base)]) /\ Proven(Plot(s, b)) => OneSession(base[Len(base)], Plot(s, b))
    <2>1. CASE NewSession(s)
      <3>1. /\ Append(history, Gap) \in Seq(Point) /\ Len(Append(history, Gap)) = Len(history) + 1
            /\ Append(history, Gap)[Len(history) + 1] = Gap /\ Pairs(Append(history, Gap))
        BY <1>2, AppendPairs
      <3>2. QED
        BY <1>2, <2>1, <3>1
    <2>2. CASE ~NewSession(s)
      <3>1. base = history
        BY <2>2
      <3>2. lastInv = 0 \/ s.inv = lastInv
        BY <2>2 DEF NewSession
      <3>3. QED
        BY <1>3, <3>1, <3>2 DEF LastOf, Under, OneSession
    <2>3. QED
      BY <2>1, <2>2
  <1>5. Recorded(s, b) = Append(base, Plot(s, b))
    BY <1>2, <1>4, AppendIsConcat DEF Recorded
  <1> HIDE DEF base
  <1>6. /\ Recorded(s, b) \in Seq(Point) /\ Len(Recorded(s, b)) = Len(base) + 1
        /\ Recorded(s, b)[Len(base) + 1] = Plot(s, b) /\ Pairs(Recorded(s, b))
    BY <1>2, <1>4, <1>5, AppendPairs
  <1>7. LastOf(Recorded(s, b), s.inv)
    BY <1>3, <1>6 DEF LastOf
  <1>8. PICK k \in 1 .. Len(Recorded(s, b)) : history' = SubSeq(Recorded(s, b), k, Len(Recorded(s, b)))
    BY DEF Record, FirstKept, s
  <1>9. lastInv' = s.inv
    BY DEF Record, s
  <1>10. QED
    BY <1>6, <1>7, <1>8, <1>9, SuffixPairs

(* refresh adds a collection that has not read anything yet.                      *)
LEMMA RefreshNamed ==
    ASSUME NEW earlier \in Seq(Collection), AllNamed(earlier), Refresh(earlier)
    PROVE  AllNamed(inflight')
  <1>1. Fresh \in Collection /\ Named(Fresh)
    BY SMT DEF Fresh, Collection, UnitsRead, MinerRead, Named
  <1>2. CASE ~MayCollect
    BY <1>2 DEF Refresh
  <1>3. CASE MayCollect
    <2>1. inflight' = Append(earlier, Fresh)
      BY <1>3 DEF Refresh
    <2>2. /\ Len(inflight') = Len(earlier) + 1 /\ inflight'[Len(earlier) + 1] = Fresh
          /\ \A i \in 1 .. Len(earlier) : inflight'[i] = earlier[i]
      BY <1>1, <2>1, AppendProperties
    <2>3. ASSUME NEW i \in 1 .. Len(inflight')
          PROVE  Named(inflight'[i])
      <3>1. Len(earlier) \in Nat
        BY LenProperties
      <3>2. i \in 1 .. Len(earlier) \/ i = Len(earlier) + 1
        BY <2>2, <3>1, SMT
      <3>3. QED
        BY <1>1, <2>2, <3>2 DEF AllNamed
    <2>4. QED
      BY <2>3 DEF AllNamed
  <1>4. QED
    BY <1>2, <1>3

(* The reads, the deliveries and the refreshes keep the collections named.         *)
LEMMA NamedStep ==
    ASSUME TypeOK, ChartInv, [Next]_vars
    PROVE  AllNamed(inflight')
  <1> USE DEF vars, menuVars, refreshVars, screenVars, opVars, payVars
  <1>0. /\ inflight \in Seq(Collection) /\ Len(inflight) \in Nat /\ AllNamed(inflight)
        /\ \A i \in 1 .. Len(inflight) : inflight[i] \in Collection /\ Named(inflight[i])
    BY LenProperties, ElementOfSeq DEF TypeOK, ChartInv, AllNamed
  <1>1. CASE Tick \/ KeyRefresh \/ LogsMsg
    BY <1>0, <1>1, RefreshNamed DEF Tick, KeyRefresh, LogsMsg
  <1>2. CASE OpMsg
    <2> DEFINE old == [k \in 1 .. Len(inflight) |-> [inflight[k] EXCEPT !.afterOp = FALSE]]
    <2>1. \A k \in 1 .. Len(inflight) : /\ [inflight[k] EXCEPT !.afterOp = FALSE] \in Collection
                                        /\ Named([inflight[k] EXCEPT !.afterOp = FALSE])
      BY <1>0, TagLemma DEF Named, Collection
    <2>2. old \in [1 .. Len(inflight) -> Collection]
      BY <2>1
    <2>3. old \in Seq(Collection) /\ Len(old) = Len(inflight)
      BY <1>0, <2>2, SeqIntro
    <2>4. AllNamed(old)
      BY <2>1, <2>3 DEF AllNamed
    <2>5. Refresh(old)
      BY <1>2 DEF OpMsg
    <2>6. QED
      BY <2>3, <2>4, <2>5, RefreshNamed
  <1>3. CASE Collections
    <2>1. PICK i \in 1 .. Len(inflight) : ReadUnits(i) \/ ReadMiner(i)
      BY <1>3 DEF Collections
    <2>2. PICK c : /\ inflight' = [inflight EXCEPT ![i] = c]
                   /\ Named(c)
      <3>1. CASE ReadUnits(i)
        <4>1. PICK r : /\ \/ r = [st |-> "seen", inv |-> world.session, active |-> world.running]
                          \/ r = [st |-> "failed", inv |-> 0, active |-> FALSE]
                       /\ inflight' = [inflight EXCEPT ![i] = [@ EXCEPT !.units = r]]
          BY <3>1 DEF ReadUnits
        <4>2. r.active => r.inv # 0
          BY <4>1 DEF ChartInv
        <4>3. Named([inflight[i] EXCEPT !.units = r])
          BY <1>0, <4>2 DEF Named, Collection
        <4>4. QED
          BY <4>1, <4>3
      <3>2. CASE ReadMiner(i)
        <4>1. PICK r : inflight' = [inflight EXCEPT ![i] = [@ EXCEPT !.miner = r]]
          BY <3>2 DEF ReadMiner, MinerAnswers, MinerFails
        <4>2. Named([inflight[i] EXCEPT !.miner = r])
          BY <1>0 DEF Named, Collection
        <4>3. QED
          BY <4>1, <4>2
      <3>3. QED
        BY <2>1, <3>1, <3>2
    <2>3. Len(inflight') = Len(inflight)
      BY <2>1, ReadsType, ConstantsAssumption
    <2>4. \A k \in 1 .. Len(inflight) : Named(inflight'[k])
      BY <1>0, <2>2
    <2>5. QED
      BY <2>3, <2>4 DEF AllNamed
  <1>4. CASE Snapshots
    <2>1. PICK i \in 1 .. Len(inflight) : SnapshotMsg(i)
      BY <1>4 DEF Snapshots
    <2>2. inflight' = Without(i) /\ Len(inflight') = Len(inflight) - 1
      BY <1>0, <2>1, WithoutLemma DEF SnapshotMsg
    <2>3. ASSUME NEW k \in 1 .. Len(inflight')
          PROVE  Named(inflight'[k])
      <3>1. k \in 1 .. Len(inflight) - 1 /\ k \in 1 .. Len(inflight) /\ k + 1 \in 1 .. Len(inflight)
        BY <1>0, <2>2, SMT
      <3>2. inflight'[k] = inflight[k] \/ inflight'[k] = inflight[k + 1]
        BY <2>2, <3>1 DEF Without
      <3>3. QED
        BY <1>0, <3>1, <3>2
    <2>4. QED
      BY <2>3 DEF AllNamed
  <1>5. CASE PayTick \/ KeyPayouts \/ PayoutsRefetch \/ PayoutsMsg
    BY <1>0, <1>5 DEF PayTick, KeyPayouts, PayoutsRefetch, PayoutsMsg
  <1>6. CASE ViewerOpens \/ ViewerCloses \/ KeyQuit \/ QuitMsg \/ Exited
             \/ UnitStarts \/ UnitStops \/ UNCHANGED vars
    BY <1>0, <1>6 DEF ViewerOpens, ViewerCloses, KeyQuit, QuitMsg, Exited, UnitStarts,
       UnitStops
  <1>7. CASE MenuKey
    BY <1>0, <1>7, MenuFrame
  <1>8. QED
    BY <1>1, <1>2, <1>3, <1>4, <1>5, <1>6, <1>7 DEF Next

(* A running unit has an InvocationID, that of the session it started.             *)
LEMMA WorldStep ==
    ASSUME TypeOK, ChartInv, [Next]_vars
    PROVE  world'.running => world'.session # 0
  <1> USE DEF vars, menuVars, refreshVars, screenVars, opVars, payVars, ChartInv
  <1>0. world \in World /\ world.session \in Nat
    BY DEF TypeOK, World
  <1>1. CASE UnitStarts
    <2>1. world'.session = world.session + 1
      BY <1>1 DEF UnitStarts
    <2>2. QED
      BY <1>0, <2>1, SMT
  <1>2. CASE UnitStops
    BY <1>0, <1>2 DEF UnitStops, World
  <1>3. CASE MenuKey
    BY <1>3 DEF MenuKey, KeyServices, KeyLogs, KeyHelp, KeyClose, KeyMove, TargetEnter,
       TargetEnterLogs, ActionEnter, ActionEnterStart, ConfirmToggle, ConfirmEnter,
       MenuOnly, ToDashboard, Launch
  <1>4. CASE world' = world
    BY <1>4
  <1>6. ASSUME NEW i, MinerAnswers(i) PROVE world'.running => world'.session # 0
    BY <1>0, <1>6 DEF MinerAnswers, World
  <1>5. QED
    BY <1>1, <1>2, <1>3, <1>4, <1>6 DEF Next, Tick, KeyRefresh, Collections, ReadUnits,
       ReadMiner, MinerFails,
       Snapshots, SnapshotMsg, PayTick, KeyPayouts, PayoutsRefetch, PayoutsMsg, OpMsg,
       ViewerOpens, ViewerCloses, LogsMsg, KeyQuit, QuitMsg, Exited

(* Only a delivery touches the chart, and it keeps its points apart by session.    *)
LEMMA ChartStep ==
    ASSUME TypeOK, ChartInv, [Next]_vars
    PROVE  ChartInv'
  <1> USE DEF vars, menuVars, refreshVars, screenVars, opVars, payVars
  <1>1. CASE Snapshots
    <2>1. PICK i \in 1 .. Len(inflight) : SnapshotMsg(i)
      BY <1>1 DEF Snapshots
    <2>2. inflight[i] \in Collection /\ Named(inflight[i])
      BY ElementOfSeq DEF TypeOK, ChartInv, AllNamed
    <2>a. PICK b \in BOOLEAN :
               \E ok \in Confirmations(inflight[i], b) : Record(Result(inflight[i], ok), b)
      BY <2>1, Zenon DEF SnapshotMsg, Parted
    <2>3. PICK ok \in Confirmations(inflight[i], b) : Record(Result(inflight[i], ok), b)
      BY <2>a
    <2>4. history \in Seq(Point) /\ lastInv \in Nat /\ Pairs(history) /\ LastOf(history, lastInv)
      BY DEF TypeOK, ChartInv
    <2>5. Pairs(history') /\ LastOf(history', lastInv')
      BY <2>2, <2>3, <2>4, RecordChart
    <2>6. QED
      BY <2>5, NamedStep, WorldStep DEF ChartInv
  <1>2. CASE MenuKey
    BY <1>2, MenuFrame, NamedStep, WorldStep DEF ChartInv
  <1>3. CASE \/ Tick \/ KeyRefresh \/ Collections \/ PayTick \/ KeyPayouts
             \/ PayoutsRefetch \/ PayoutsMsg \/ OpMsg \/ ViewerOpens \/ ViewerCloses \/ LogsMsg
             \/ KeyQuit \/ QuitMsg \/ Exited \/ UnitStarts \/ UnitStops
             \/ UNCHANGED vars
    <2>1. UNCHANGED <<history, lastInv>>
      BY <1>3 DEF Tick, KeyRefresh, Collections, ReadUnits, ReadMiner, MinerAnswers, MinerFails,
         PayTick, KeyPayouts, PayoutsRefetch, PayoutsMsg, OpMsg, ViewerOpens, ViewerCloses,
         LogsMsg, KeyQuit, QuitMsg, Exited, UnitStarts, UnitStops
    <2>2. QED
      BY <2>1, NamedStep, WorldStep DEF ChartInv
  <1>4. QED
    BY <1>1, <1>2, <1>3 DEF Next

(* Two neighbouring values of the chart, each recorded while systemd reported the *)
(* unit active, are of one InvocationID (DATA-08), and of one process unless a    *)
(* restart fell between two reads while the process was too young to tell, in     *)
(* whatever order the snapshots arrive and however the chart is trimmed.          *)
THEOREM ChartCorrect == Spec => []ProvenPointsOfOneSession
  <1>1. Init => ChartInv
    <2>1. SUFFICES ASSUME Init PROVE ChartInv
      OBVIOUS
    <2>2. inflight = <<Fresh>> /\ history = <<>> /\ ~world.running
      BY <2>1 DEF Init
    <2>3. Named(Fresh)
      BY DEF Named, Fresh
    <2>4. AllNamed(inflight)
      BY <2>2, <2>3, SMT DEF AllNamed
    <2>5. Pairs(history) /\ LastOf(history, lastInv)
      BY <2>2, SMT DEF Pairs, LastOf
    <2>6. QED
      BY <2>2, <2>4, <2>5 DEF ChartInv
  <1>2. TypeOK /\ ChartInv /\ [Next]_vars => ChartInv'
    BY ChartStep
  <1>3. ChartInv => ProvenPointsOfOneSession
    BY DEF ChartInv, Pairs, Proven, OneSession, ProvenPointsOfOneSession
  <1>4. QED
    BY <1>1, <1>2, <1>3, TypeCorrect, PTL DEF Spec
=============================================================================
