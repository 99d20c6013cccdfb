--------------------------- MODULE NodeSelectProofs ---------------------------
(***************************************************************************)
(* NodeSelect: the params file stays whole, no temporary file is left, and *)
(* every node was chosen, for any number of runs, nodes and edits.         *)
(***************************************************************************)
EXTENDS NodeSelect, TLAPS

-----------------------------------------------------------------------------
(* What the updates of a file and of its content leave alone. *)

\* Rewrite sets the node and keeps the rest.
LEMMA Rewritten ==
    ASSUME NEW c \in Contents, NEW n \in Nodes
    PROVE  /\ Rewrite(c, n) \in Contents
           /\ Rewrite(c, n).node = n
           /\ Rewrite(c, n).whole = c.whole
BY DEF Rewrite, Contents

\* Chown gives a file the attributes of the params file.
LEMMA Chowned ==
    ASSUME NEW f \in Files, NEW a \in {"service", "private"}
    PROVE  /\ [f EXCEPT !.attr = a] \in Files
           /\ [f EXCEPT !.attr = a].attr = a
BY DEF Files

\* Write gives a file its content.
LEMMA Written ==
    ASSUME NEW f \in Files, NEW c \in Contents
    PROVE  /\ [f EXCEPT !.content = c] \in Files
           /\ [f EXCEPT !.content = c].attr = f.attr
           /\ [f EXCEPT !.content = c].content = c
BY DEF Files

\* Sync puts the data of a file on the disk.
LEMMA Flushed ==
    ASSUME NEW f \in Files
    PROVE  /\ [f EXCEPT !.synced = TRUE] \in Files
           /\ [f EXCEPT !.synced = TRUE].attr = f.attr
           /\ [f EXCEPT !.synced = TRUE].content = f.content
           /\ [f EXCEPT !.synced = TRUE].synced
BY DEF Files

Edited(f) == [f EXCEPT !.content = Revised(@), !.synced = TRUE]

\* An edit changes neither the node nor the attributes.
LEMMA EditedFile ==
    ASSUME NEW f \in Files
    PROVE  /\ Edited(f) \in Files
           /\ Edited(f).content.node = f.content.node
           /\ Edited(f).content.whole = f.content.whole
           /\ Edited(f).attr = f.attr
           /\ Edited(f).synced
<1>1. f.content \in Contents
  BY DEF Files
<1>2. /\ Revised(f.content) \in Contents
      /\ Revised(f.content).node = f.content.node
      /\ Revised(f.content).whole = f.content.whole
  BY <1>1 DEF Contents, Revised
<1>3. /\ Edited(f) \in Files
      /\ Edited(f).content = Revised(f.content)
      /\ Edited(f).attr = f.attr
      /\ Edited(f).synced
  BY <1>2 DEF Edited, Files
<1> QED
  BY <1>2, <1>3

-----------------------------------------------------------------------------
(* The inductive invariant: what a run has established about its temporary *)
(* file when it gets to each step of WriteAtomic.                          *)

Good(f) == f.content.whole /\ f.attr = "service" /\ f.synced

FileInv(r) ==
    /\ pc[r] \in {"create", "chown", "write"} => updated[r].whole
    /\ pc[r] \in {"chown", "write", "sync", "rename"} => temp[r] \in Files
    /\ pc[r] \in {"write", "sync", "rename"} => temp[r].attr = "service"
    /\ pc[r] \in {"sync", "rename"} => temp[r].content.whole
    /\ pc[r] = "rename" => temp[r].synced

IInv == TypeOK /\ Good(conf) /\ Good(stable) /\ \A r \in Runs : FileInv(r)

\* A sound, synced file survives a loss of power unchanged.
LEMMA Survived ==
    ASSUME NEW f, Good(f)
    PROVE  Survives(f) = f
BY DEF Good, Survives

\* It holds at first.
LEMMA InitIInv == Init => IInv
BY NodeSelectAssumption
   DEF Init, IInv, TypeOK, Good, FileInv, Contents, Files, Steps, NoFile, Empty

\* Every step of a run keeps it.
LEMMA RunIInv ==
    ASSUME IInv, NEW r \in Runs, Run(r)
    PROVE  IInv'
<1> USE DEF IInv, TypeOK, At, Goto, Steps, Ends
<1>1. CASE Probe(r)
  BY <1>1 DEF Probe, FileInv, Good
<1>2. CASE ReadAndRewrite(r)
  <2>1. conf.content \in Contents /\ best[r] \in Nodes
    BY DEF Files
  <2>2. Rewrite(conf.content, best[r]) \in Contents /\ Rewrite(conf.content, best[r]).whole
    BY <2>1, Rewritten DEF Good, Contents
  <2> QED
    BY <1>2, <2>2 DEF ReadAndRewrite, FileInv, Good
<1>3. CASE Fail(r)
  BY <1>3 DEF Fail, Removed, FileInv, Good
<1>4. CASE CreateTemp(r)
  <2>1. [content |-> Empty, attr |-> "private", synced |-> FALSE] \in Files
    BY NodeSelectAssumption DEF Files, Contents, Empty
  <2> QED
    BY <1>4, <2>1 DEF CreateTemp, FileInv, Good
<1>5. CASE Chown(r)
  <2>1. temp[r] \in Files /\ Attr = "service"
    BY <1>5 DEF Chown, FileInv, Attr, Good
  <2>2. [temp[r] EXCEPT !.attr = Attr] \in Files /\ [temp[r] EXCEPT !.attr = Attr].attr = "service"
    BY <2>1, Chowned
  <2> QED
    BY <1>5, <2>2 DEF Chown, FileInv, Good
<1>6. CASE Write(r)
  <2>1. temp[r] \in Files /\ temp[r].attr = "service" /\ updated[r] \in Contents /\ updated[r].whole
    BY <1>6 DEF Write, FileInv
  <2>2. LET f == [temp[r] EXCEPT !.content = updated[r]]
        IN  f \in Files /\ f.attr = "service" /\ f.content.whole
    BY <2>1, Written
  <2> QED
    BY <1>6, <2>2 DEF Write, FileInv, Good
<1>7. CASE Sync(r)
  <2>1. temp[r] \in Files /\ temp[r].attr = "service" /\ temp[r].content.whole
    BY <1>7 DEF Sync, FileInv
  <2>2. LET f == [temp[r] EXCEPT !.synced = Synced]
        IN  f \in Files /\ f.attr = "service" /\ f.content.whole /\ f.synced
    BY <2>1, Flushed DEF Synced
  <2> QED
    BY <1>7, <2>2 DEF Sync, FileInv, Good
<1>8. CASE Rename(r)
  <2>1. temp[r] \in Files /\ Good(temp[r])
    BY <1>8 DEF Rename, FileInv, Good
  <2> QED
    BY <1>8, <2>1 DEF Rename, FileInv, Good
<1> QED
  BY <1>1, <1>2, <1>3, <1>4, <1>5, <1>6, <1>7, <1>8 DEF Run

\* Everything else keeps it.
LEMMA NextIInv == IInv /\ [Next]_vars => IInv'
<1> SUFFICES ASSUME IInv, [Next]_vars
             PROVE  IInv'
  OBVIOUS
<1>1. ASSUME NEW r \in Runs, Run(r) PROVE IInv'
  BY <1>1, RunIInv
<1>2. ASSUME NEW r \in Runs, Kill(r) PROVE IInv'
  BY <1>2 DEF Kill, IInv, TypeOK, Goto, Steps, Ends, FileInv, Good
<1>3. CASE Edit
  <2>1. conf \in Files /\ conf' = Edited(conf)
    BY <1>3 DEF Edit, Edited, IInv, TypeOK
  <2>2. conf' \in Files /\ Good(conf')
    BY <2>1, EditedFile DEF IInv, Good
  <2> QED
    BY <1>3, <2>2 DEF Edit, IInv, TypeOK, FileInv, Good
<1>4. CASE Flush
  BY <1>4 DEF Flush, IInv, TypeOK, FileInv, Good
<1>5. CASE PowerLoss
  <2>1. PICK f \in {conf, stable} : conf' = Survives(f) /\ stable' = Survives(f)
    BY <1>5 DEF PowerLoss
  <2>2. conf' = f /\ stable' = f
    BY <2>1, Survived DEF IInv
  <2>3. \A r \in Runs : pc'[r] = IF pc[r] \in Steps THEN "killed" ELSE pc[r]
    BY <1>5 DEF PowerLoss
  <2> QED
    BY <1>5, <2>2, <2>3 DEF PowerLoss, IInv, TypeOK, FileInv, Good, Steps, Ends
<1>6. CASE UNCHANGED vars
  BY <1>6 DEF vars, IInv, TypeOK, FileInv, Good
<1> QED
  BY <1>1, <1>2, <1>3, <1>4, <1>5, <1>6 DEF Next

\* The strengthened invariant of node select, in every state.
THEOREM Invariant == Spec => []IInv
BY InitIInv, NextIInv, PTL DEF Spec

\* P2Pool never finds an incomplete file or one that it may not read, whatever calls of
\* WriteAtomic fail and wherever a run is killed or the power is lost.
THEOREM FileCorrect == Spec => []FileIsWhole
<1>1. IInv => FileIsWhole
  BY DEF IInv, Good, FileIsWhole
<1> QED
  BY <1>1, Invariant, PTL

-----------------------------------------------------------------------------
(* The two properties that need more than the file's own history.          *)

\* A temporary file outlives its run only after a kill or a loss of power.
THEOREM NoLitterLeft == Spec => []NoLitter
<1> USE DEF NoLitter
<1>1. Init => NoLitter
  BY DEF Init
<1>2. TypeOK /\ NoLitter /\ [Next]_vars => NoLitter'
  <2> SUFFICES ASSUME TypeOK, NoLitter, [Next]_vars
               PROVE  NoLitter'
    OBVIOUS
  <2> USE DEF TypeOK, At, Goto, Steps, Ends
  <2>1. ASSUME NEW r \in Runs, Run(r) PROVE NoLitter'
    BY <2>1 DEF Run, Probe, ReadAndRewrite, Stops, Fail, Removed, CreateTemp, Chown, Write, Sync, Rename
  <2>2. ASSUME NEW r \in Runs, Kill(r) PROVE NoLitter'
    BY <2>2 DEF Kill
  <2>3. CASE PowerLoss
    BY <2>3 DEF PowerLoss
  <2>4. CASE Edit \/ Flush \/ UNCHANGED vars
    BY <2>4 DEF Edit, Flush, vars
  <2> QED
    BY <2>1, <2>2, <2>3, <2>4 DEF Next
<1>3. IInv => TypeOK
  BY DEF IInv
<1> QED
  BY <1>1, <1>2, <1>3, Invariant, PTL DEF Spec

\* The file after a loss of power points at a chosen node, too; a run that is past the
\* check for dry runs is a real one and carries the node that it probed.
Chosen(f) ==
    f.content.node # Origin =>
        \E r \in Runs \ DryRuns : best[r] = f.content.node /\ pc[r] = "exitOK"

Carries(r) ==
    /\ pc[r] \in {"create", "chown", "write", "sync", "rename"} => r \notin DryRuns
    /\ pc[r] \in {"create", "chown", "write"} => updated[r].node = best[r]
    /\ pc[r] \in {"sync", "rename"} => temp[r].content.node = best[r]

ChosenInv == Chosen(conf) /\ Chosen(stable) /\ \A r \in Runs : Carries(r)

\* A step of a run keeps it: only Rename changes the file.
LEMMA RunChosen ==
    ASSUME IInv, ChosenInv, NEW r \in Runs, Run(r)
    PROVE  ChosenInv'
<1> USE DEF IInv, TypeOK, ChosenInv, At, Goto, Steps, Ends
<1>1. CASE Probe(r)
  BY <1>1 DEF Probe, Chosen, Carries
<1>2. CASE ReadAndRewrite(r)
  <2>1. Rewrite(conf.content, best[r]).node = best[r]
    BY Rewritten DEF Files
  <2> QED
    BY <1>2, <2>1 DEF ReadAndRewrite, Stops, Chosen, Carries
<1>3. CASE Fail(r)
  BY <1>3 DEF Fail, Chosen, Carries
<1>4. CASE CreateTemp(r)
  BY <1>4 DEF CreateTemp, Chosen, Carries
<1>5. CASE Chown(r)
  BY <1>5 DEF Chown, Chosen, Carries
<1>6. CASE Write(r)
  <2>1. temp[r] \in Files /\ updated[r] \in Contents /\ updated[r].node = best[r]
    BY <1>6 DEF Write, FileInv, Carries
  <2>2. [temp[r] EXCEPT !.content = updated[r]].content.node = best[r]
    BY <2>1, Written
  <2> QED
    BY <1>6, <2>2 DEF Write, Chosen, Carries
<1>7. CASE Sync(r)
  <2>1. temp[r] \in Files /\ temp[r].content.node = best[r]
    BY <1>7 DEF Sync, FileInv, Carries
  <2>2. [temp[r] EXCEPT !.synced = Synced].content.node = best[r]
    BY <2>1, Flushed DEF Synced
  <2> QED
    BY <1>7, <2>2 DEF Sync, Chosen, Carries
<1>8. CASE Rename(r)
  <2>1. temp[r].content.node = best[r] /\ r \in Runs \ DryRuns
    BY <1>8 DEF Rename, Carries
  <2>2. Chosen(conf)'
    BY <1>8, <2>1 DEF Rename, Chosen
  <2>3. Chosen(stable)'
    BY <1>8 DEF Rename, Chosen
  <2> QED
    BY <1>8, <2>2, <2>3 DEF Rename, Carries
<1> QED
  BY <1>1, <1>2, <1>3, <1>4, <1>5, <1>6, <1>7, <1>8 DEF Run

\* Nothing else chooses a node or forgets a run that ended.
THEOREM NodesChosen == Spec => []NodeWasChosen
<1>1. Init => ChosenInv
  BY DEF Init, ChosenInv, Chosen, Carries
<1>2. IInv /\ ChosenInv /\ [Next]_vars => ChosenInv'
  <2> SUFFICES ASSUME IInv, ChosenInv, [Next]_vars
               PROVE  ChosenInv'
    OBVIOUS
  <2>1. ASSUME NEW r \in Runs, Run(r) PROVE ChosenInv'
    BY <2>1, RunChosen
  <2>2. ASSUME NEW r \in Runs, Kill(r) PROVE ChosenInv'
    BY <2>2 DEF Kill, IInv, TypeOK, Goto, Steps, Ends, ChosenInv, Chosen, Carries
  <2>3. CASE Edit
    <3>1. conf \in Files /\ conf' = Edited(conf)
      BY <2>3 DEF Edit, Edited, IInv, TypeOK
    <3>2. conf'.content.node = conf.content.node
      BY <3>1, EditedFile
    <3> QED
      BY <2>3, <3>2 DEF Edit, ChosenInv, Chosen, Carries
  <2>4. CASE Flush
    BY <2>4 DEF Flush, ChosenInv, Chosen, Carries
  <2>5. CASE PowerLoss
    <3>1. PICK f \in {conf, stable} : conf' = Survives(f) /\ stable' = Survives(f)
      BY <2>5 DEF PowerLoss
    <3>2. conf' = f /\ stable' = f
      BY <3>1, Survived DEF IInv
    <3>3. \A r \in Runs : pc'[r] = IF pc[r] \in Steps THEN "killed" ELSE pc[r]
      BY <2>5 DEF PowerLoss
    <3> QED
      BY <2>5, <3>2, <3>3 DEF PowerLoss, ChosenInv, Chosen, Carries, Steps
  <2>6. CASE UNCHANGED vars
    BY <2>6 DEF vars, ChosenInv, Chosen, Carries
  <2> QED
    BY <2>1, <2>2, <2>3, <2>4, <2>5, <2>6 DEF Next
<1>3. ChosenInv => NodeWasChosen
  BY DEF ChosenInv, Chosen, NodeWasChosen
<1> QED
  BY <1>1, <1>2, <1>3, Invariant, PTL DEF Spec

-----------------------------------------------------------------------------
(* The refinement: every step is one of ParamsRegister, or none.           *)

\* What a run is about to rename into place is what it holds.
Prepared(r) ==
    /\ pc[r] \in Writing => updated[r].whole /\ r \notin DryRuns
    /\ pc[r] \in {"sync", "rename"} => temp[r].content = updated[r]

PreparedInv == \A r \in Runs : Prepared(r)

\* A step of a run keeps that.
LEMMA RunPrepared ==
    ASSUME IInv, PreparedInv, NEW r \in Runs, Run(r)
    PROVE  PreparedInv'
<1> USE DEF IInv, TypeOK, PreparedInv, Prepared, At, Goto, Steps, Ends, Writing
<1>1. CASE Probe(r) \/ CreateTemp(r) \/ Chown(r) \/ Fail(r)
  BY <1>1 DEF Probe, CreateTemp, Chown, Fail
<1>2. CASE ReadAndRewrite(r)
  <2>1. conf.content \in Contents /\ best[r] \in Nodes
    BY DEF Files
  <2>2. Rewrite(conf.content, best[r]).whole
    BY <2>1, Rewritten DEF Good
  <2> QED
    BY <1>2, <2>2 DEF ReadAndRewrite, Stops
<1>3. CASE Write(r)
  <2>1. temp[r] \in Files /\ updated[r] \in Contents
    BY <1>3 DEF Write, FileInv
  <2>2. [temp[r] EXCEPT !.content = updated[r]].content = updated[r]
    BY <2>1, Written
  <2> QED
    BY <1>3, <2>2 DEF Write
<1>4. CASE Sync(r)
  <2>1. temp[r] \in Files
    BY <1>4 DEF Sync, FileInv
  <2>2. [temp[r] EXCEPT !.synced = Synced].content = temp[r].content
    BY <2>1, Flushed DEF Synced
  <2> QED
    BY <1>4, <2>2 DEF Sync
<1>5. CASE Rename(r)
  BY <1>5 DEF Rename
<1> QED
  BY <1>1, <1>2, <1>3, <1>4, <1>5 DEF Run

\* What a run is about to rename is prepared, in every state.
LEMMA PreparedAlways == Spec => []PreparedInv
<1>1. Init => PreparedInv
  BY DEF Init, PreparedInv, Prepared, Writing
<1>2. IInv /\ PreparedInv /\ [Next]_vars => PreparedInv'
  <2> SUFFICES ASSUME IInv, PreparedInv, [Next]_vars
               PROVE  PreparedInv'
    OBVIOUS
  <2>1. ASSUME NEW r \in Runs, Run(r) PROVE PreparedInv'
    BY <2>1, RunPrepared
  <2> USE DEF IInv, TypeOK, PreparedInv, Prepared, Goto, Steps, Ends, Writing
  <2>2. ASSUME NEW r \in Runs, Kill(r) PROVE PreparedInv'
    BY <2>2 DEF Kill
  <2>3. CASE PowerLoss
    BY <2>3 DEF PowerLoss
  <2>4. CASE Edit \/ Flush \/ UNCHANGED vars
    BY <2>4 DEF Edit, Flush, vars
  <2> QED
    BY <2>1, <2>2, <2>3, <2>4 DEF Next
<1> QED
  BY <1>1, <1>2, Invariant, PTL DEF Spec

\* What the file holds is a value of the register.
LEMMA FoundValue ==
    ASSUME NEW c \in Contents, c.whole
    PROVE  /\ Found(c, TRUE) \in Register!Values
           /\ Found(c, TRUE) = [node |-> c.node, rest |-> c.rest, readable |-> TRUE]
BY DEF Found, Contents, Register!Values

\* An empty file is found as nothing by P2Pool.
LEMMA FoundEmpty == Found(Empty, TRUE) = Register!Nothing
BY DEF Found, Empty, Register!Nothing

\* A good file is found as what it holds.
LEMMA GoodFound ==
    ASSUME NEW f \in Files, Good(f)
    PROVE  /\ FoundIn(f) = Found(f.content, TRUE)
           /\ FoundIn(f) = [node |-> f.content.node, rest |-> f.content.rest, readable |-> TRUE]
BY DEF Found, FoundIn, Files, Contents, Good

\* Steps that neither begin nor end the writing of a real run leave what is held ...
LEMMA HeldStays ==
    ASSUME \A q \in Runs \ DryRuns :
              /\ pc'[q] \in Writing <=> pc[q] \in Writing
              /\ pc[q] \in Writing => updated'[q] = updated[q]
    PROVE  Held' = Held
BY DEF Held

\* ... and one that ends it for a run empties its hands.
LEMMA HeldEnds ==
    ASSUME NEW r \in Runs \ DryRuns, pc'[r] \notin Writing,
           \A q \in Runs \ DryRuns : q # r => pc'[q] = pc[q],
           UNCHANGED updated
    PROVE  Held' = [Held EXCEPT ![r] = Register!Nothing]
BY FoundEmpty DEF Held

\* A run that fails or is killed gives up, if it had begun to write.
LEMMA GivingUp ==
    ASSUME TypeOK, NEW r \in Runs, NEW e \in Ends, Goto(r, e), UNCHANGED <<conf, stable, updated>>
    PROVE  [Register!RegisterNext]_(Register!registerVars)
<1>1. pc' = [pc EXCEPT ![r] = e] /\ e \notin Writing
  BY DEF Goto, Ends, Writing
<1>2. CASE r \in DryRuns
  <2>1. \A q \in Runs \ DryRuns : pc'[q] = pc[q]
    BY <1>1, <1>2 DEF TypeOK
  <2>2. Held' = Held
    BY <2>1, HeldStays
  <2> QED
    BY <2>2 DEF Register!registerVars, FoundIn
<1>3. CASE r \notin DryRuns
  <2>1. pc'[r] \notin Writing /\ \A q \in Runs \ DryRuns : q # r => pc'[q] = pc[q]
    BY <1>1, <1>3 DEF TypeOK
  <2>2. Held' = [Held EXCEPT ![r] = Register!Nothing]
    BY <1>3, <2>1, HeldEnds
  <2>3. Register!GiveUp(r)
    BY <2>2 DEF Register!GiveUp, FoundIn
  <2> QED
    BY <1>3, <2>3 DEF Register!RegisterNext
<1> QED
  BY <1>2, <1>3

\* The end of the reading is the decision to write, unless there is nothing to write.
LEMMA ReadTakes ==
    ASSUME IInv, NEW r \in Runs, ReadAndRewrite(r)
    PROVE  [Register!RegisterNext]_(Register!registerVars)
<1> USE DEF IInv, TypeOK
<1> DEFINE new == Rewrite(conf.content, best[r])
<1>1. conf \in Files /\ conf.content \in Contents /\ best[r] \in Nodes
  BY DEF Files
<1>2. new \in Contents /\ new.node = best[r] /\ new.whole /\ new.rest = conf.content.rest
  BY <1>1, Rewritten DEF Good, Rewrite, Contents
<1>3. CASE Stops(r, new)
  <2>1. /\ pc[r] = "read" /\ pc' = [pc EXCEPT ![r] = "exitOK"]
        /\ updated' = [updated EXCEPT ![r] = new]
    BY <1>3 DEF ReadAndRewrite, At, Goto
  <2>2. \A q \in Runs \ DryRuns :
           /\ pc'[q] \in Writing <=> pc[q] \in Writing
           /\ pc[q] \in Writing => updated'[q] = updated[q]
    BY <2>1 DEF Writing
  <2>3. Held' = Held
    BY <2>2, HeldStays
  <2> QED
    BY <2>3 DEF ReadAndRewrite, Register!registerVars, FoundIn
<1>4. CASE ~Stops(r, new)
  <2>1. r \in Runs \ DryRuns /\ new # conf.content
    BY <1>4 DEF Stops
  <2>2. best[r] # conf.content.node
    <3>1. SUFFICES ASSUME best[r] = conf.content.node PROVE new = conf.content
      BY <2>1
    <3> QED
      BY <1>1, <3>1 DEF Rewrite, Contents
  <2>3. FoundIn(conf).node = conf.content.node /\ FoundIn(conf).rest = conf.content.rest
    BY DEF FoundIn, Found
  <2>4. /\ pc[r] = "read" /\ pc' = [pc EXCEPT ![r] = "create"]
        /\ updated' = [updated EXCEPT ![r] = new]
        /\ UNCHANGED <<conf, stable>>
    BY <1>4 DEF ReadAndRewrite, At, Goto
  <2>5. Held[r] = Register!Nothing
    BY <2>1, <2>4, FoundEmpty DEF Held, Writing
  <2>6. Held' = [Held EXCEPT ![r] = Found(new, TRUE)]
    BY <2>1, <2>4 DEF Held, Writing
  <2>7. Found(new, TRUE) = [node |-> best[r], rest |-> FoundIn(conf).rest, readable |-> TRUE]
    BY <1>2, <2>3, FoundValue
  <2>8. Register!Take(r)
    BY <1>1, <2>2, <2>3, <2>4, <2>5, <2>6, <2>7 DEF Register!Take, FoundIn
  <2> QED
    BY <2>1, <2>8 DEF Register!RegisterNext
<1> QED
  BY <1>3, <1>4

\* The rename is the one step that changes the register for the readers.
LEMMA RenamePuts ==
    ASSUME IInv, PreparedInv, NEW r \in Runs, Rename(r)
    PROVE  [Register!RegisterNext]_(Register!registerVars)
<1> USE DEF IInv, TypeOK
<1>1. /\ pc[r] = "rename" /\ pc' = [pc EXCEPT ![r] = "exitOK"]
      /\ conf' = temp[r] /\ UNCHANGED <<stable, updated>>
  BY DEF Rename, At, Goto
<1>2. /\ r \in Runs \ DryRuns /\ updated[r] \in Contents /\ updated[r].whole
      /\ temp[r].content = updated[r] /\ temp[r] \in Files /\ Good(temp[r])
  BY <1>1 DEF PreparedInv, Prepared, FileInv, Good, Writing
<1>3. Held[r] = Found(updated[r], TRUE) /\ Held[r] \in Register!Values
  BY <1>1, <1>2, FoundValue DEF Held, Writing
<1>4. FoundIn(conf)' = Held[r]
  <2>1. FoundIn(temp[r]) = Found(updated[r], TRUE)
    BY <1>2, GoodFound
  <2> QED
    BY <1>1, <1>3, <2>1 DEF FoundIn
<1>5. pc'[r] \notin Writing /\ \A q \in Runs \ DryRuns : q # r => pc'[q] = pc[q]
  BY <1>1 DEF Writing
<1>6. Held' = [Held EXCEPT ![r] = Register!Nothing]
  BY <1>1, <1>2, <1>5, HeldEnds
<1>7. Register!Put(r)
  BY <1>1, <1>3, <1>4, <1>6 DEF Register!Put, FoundIn
<1> QED
  BY <1>2, <1>7 DEF Register!RegisterNext

\* Every step maps to a step of the register or to none.
LEMMA StepImplements ==
    IInv /\ PreparedInv /\ [Next]_vars => [Register!RegisterNext]_(Register!registerVars)
<1> SUFFICES ASSUME IInv, PreparedInv, [Next]_vars
             PROVE  [Register!RegisterNext]_(Register!registerVars)
  OBVIOUS
<1> USE DEF IInv, TypeOK
<1>1. ASSUME NEW r \in Runs, Probe(r) \/ CreateTemp(r) \/ Chown(r) \/ Write(r) \/ Sync(r)
      PROVE  [Register!RegisterNext]_(Register!registerVars)
  <2>1. /\ UNCHANGED <<conf, stable, updated>>
        /\ \A q \in Runs : pc'[q] \in Writing <=> pc[q] \in Writing
    BY <1>1 DEF Probe, CreateTemp, Chown, Write, Sync, At, Goto, Writing
  <2>2. Held' = Held
    BY <2>1, HeldStays
  <2> QED
    BY <2>1, <2>2 DEF Register!registerVars, FoundIn
<1>2. ASSUME NEW r \in Runs, ReadAndRewrite(r)
      PROVE  [Register!RegisterNext]_(Register!registerVars)
  BY <1>2, ReadTakes
<1>3. ASSUME NEW r \in Runs, Rename(r)
      PROVE  [Register!RegisterNext]_(Register!registerVars)
  BY <1>3, RenamePuts
<1>4. ASSUME NEW r \in Runs, Fail(r) \/ Kill(r)
      PROVE  [Register!RegisterNext]_(Register!registerVars)
  <2>1. PICK e \in Ends : Goto(r, e)
    BY <1>4 DEF Fail, Kill, Ends
  <2>2. UNCHANGED <<conf, stable, updated>>
    BY <1>4 DEF Fail, Kill
  <2> QED
    BY <2>1, <2>2, GivingUp
<1>5. CASE Edit
  <2>1. conf' = Edited(conf) /\ UNCHANGED <<stable, pc, updated>>
    BY <1>5 DEF Edit, Edited
  <2>2. Edited(conf) \in Files /\ Good(Edited(conf)) /\ Edited(conf).content.node = conf.content.node
    BY EditedFile DEF Good
  <2>3. Edited(conf).content.rest = conf.content.rest + 1
    <3>1. Edited(conf).content = Revised(conf.content) /\ conf.content \in Contents
      BY DEF Edited, Files
    <3> QED
      BY <3>1 DEF Revised, Contents
  <2>4. FoundIn(conf)' = FoundIn(Edited(conf))
    BY <2>1 DEF FoundIn
  <2>5. /\ FoundIn(conf).node = conf.content.node /\ FoundIn(conf).rest = conf.content.rest
        /\ FoundIn(Edited(conf)) = [node |-> conf.content.node,
                                    rest |-> conf.content.rest + 1, readable |-> TRUE]
    <3>1. FoundIn(Edited(conf)) = [node |-> Edited(conf).content.node,
                                   rest |-> Edited(conf).content.rest, readable |-> TRUE]
      BY <2>2, GoodFound
    <3> QED
      BY <2>2, <2>3, <3>1 DEF FoundIn, Found
  <2>6. UNCHANGED <<FoundIn(stable), Held>>
    BY <2>1 DEF FoundIn, Held
  <2>7. Register!Change
    BY <2>4, <2>5, <2>6 DEF Register!Change
  <2> QED
    BY <2>7 DEF Register!RegisterNext
<1>6. CASE Flush
  BY <1>6 DEF Flush, Register!RegisterNext, Register!Save, FoundIn, Held
<1>7. CASE PowerLoss
  <2>1. PICK f \in {conf, stable} : conf' = Survives(f) /\ stable' = Survives(f)
    BY <1>7 DEF PowerLoss
  <2>2. conf' = f /\ stable' = f
    BY <2>1, Survived
  <2>3. FoundIn(conf)' = FoundIn(f) /\ FoundIn(stable)' = FoundIn(f)
    BY <2>2 DEF FoundIn
  <2>4. \A r \in Runs : pc'[r] \notin Writing
    BY <1>7 DEF PowerLoss, Steps, Ends, Writing
  <2>5. Held' = [r \in Runs \ DryRuns |-> Register!Nothing]
    BY <2>4, FoundEmpty DEF Held
  <2>6. Register!Restore
    BY <2>3, <2>5 DEF Register!Restore
  <2> QED
    BY <2>6 DEF Register!RegisterNext
<1>8. CASE UNCHANGED vars
  BY <1>8 DEF vars, Register!registerVars, FoundIn, Held
<1> QED
  BY <1>1, <1>2, <1>3, <1>4, <1>5, <1>6, <1>7, <1>8 DEF Next, Run

\* NODE-03 as one statement, for any number of runs and whatever fails: readers of the
\* params file see the register of ParamsRegister.
THEOREM RegisterImplemented == Spec => ImplementsRegister
<1>1. Init => Register!RegisterInit
  <2> SUFFICES ASSUME Init PROVE Register!RegisterInit
    OBVIOUS
  <2>1. FoundIn(conf) = [node |-> Origin, rest |-> 0, readable |-> TRUE] /\ stable = conf
    BY DEF Init, FoundIn, Found
  <2>2. Held = [w \in Runs \ DryRuns |-> Register!Nothing]
    BY FoundEmpty DEF Init, Held, Writing
  <2> QED
    BY <2>1, <2>2 DEF Register!RegisterInit, FoundIn
<1>2. Spec => [](IInv /\ PreparedInv)
  BY Invariant, PreparedAlways, PTL
<1> QED
  BY <1>1, <1>2, StepImplements, PTL DEF Spec, ImplementsRegister, Register!RegisterSpec
=============================================================================
