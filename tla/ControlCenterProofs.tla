------------------------ MODULE ControlCenterProofs ------------------------
(* TLAPS proofs about what the control center writes: its poller first,    *)
(* then the settings row, with the admin's own edits and sessions.         *)
(* The former are about ControlSync, the poller under arbitrary responses, *)
(* and that the poller with its control center is an instance of it:       *)
(* whatever is proved of the first holds for the responses of the          *)
(* documented server, with its losses and crashes.                         *)
EXTENDS ControlCenter, Settings, TLAPS

(* What a received snapshot is made of.                                    *)
LEMMA SnapFacts ==
  ASSUME NEW s \in Snapshots
  PROVE  /\ DOMAIN s.users \subseteq Ids
         /\ \A i \in DOMAIN s.users : s.users[i].name \in Names /\ s.users[i].note \in Notes
         /\ s.delete \subseteq Ids
         /\ s.rules \subseteq Rules
         /\ s.settings \in Settings \union {None}
         /\ s.cursor \in Cursors \union {None}
         /\ s.kind \in {"full", "delta", "none"}
<1>1. s \in SnapshotType
  BY ControlAssumption
<1>2. PICK S \in SUBSET Ids : s.users \in [S -> Want]
  BY <1>1 DEF SnapshotType
<1>3. DOMAIN s.users = S /\ \A i \in S : s.users[i] \in Want
  BY <1>2
<1>4. \A i \in S : s.users[i].name \in Names /\ s.users[i].note \in Notes
  BY <1>3 DEF Want
<1> QED
  BY <1>1, <1>3, <1>4 DEF SnapshotType

LEMMA InitOwnership == Init => OwnershipInv
<1> SUFFICES ASSUME Init PROVE OwnershipInv
  OBVIOUS
<1>1. admin \in [Admins -> [pc : {"idle", "rename", "note", "delete"}, id : Ids \union {None},
                            name : Names \union {None}, note : Notes \union {None}]]
  BY DEF Init, IdleAdmin
<1>2. TypeOK
  BY <1>1 DEF Init, TypeOK
<1>3. PointsOK
  BY DEF Init, PointsOK, IdleAdmin
<1>4. Claimed
  BY DEF Init, Claimed, Exists
<1> QED
  BY <1>2, <1>3, <1>4 DEF OwnershipInv

(* U is the users table after updates of other columns than the source.    *)
SameSources(U) ==
  /\ U \in [Ids -> Row \union {None}]
  /\ \A j \in Ids : /\ U[j] = None <=> users[j] = None
                    /\ U[j] # None => U[j].src = users[j].src

LEMMA SetNameSources ==
  ASSUME users \in [Ids -> Row \union {None}], NEW i \in Ids, NEW n \in Names
  PROVE  SameSources(SetName(i, n))
<1>1. CASE ~Exists(i)
  BY <1>1 DEF SetName, SameSources
<1>2. CASE Exists(i)
  BY ControlAssumption DEF SetName, Exists, Row, SameSources
<1> QED
  BY <1>1, <1>2

LEMMA SetNoteSources ==
  ASSUME users \in [Ids -> Row \union {None}], NEW i \in Ids, NEW t \in Notes
  PROVE  SameSources(SetNote(i, t))
<1>1. CASE ~Exists(i)
  BY <1>1 DEF SetNote, SameSources
<1>2. CASE Exists(i)
  BY ControlAssumption DEF SetNote, Exists, Row, SameSources
<1> QED
  BY <1>1, <1>2

(* The statements that update a row leave every source as it was.          *)
LEMMA UpdateStep ==
  ASSUME OwnershipInv,
         \/ RenameControl \/ NoteControl
         \/ \E a \in Admins : AdminRename(a) \/ AdminNote(a)
  PROVE  SameSources(users')
<1> USE DEF OwnershipInv
<1>1. users \in [Ids -> Row \union {None}]
  BY DEF TypeOK
<1>2. SameSources(users)
  BY <1>1 DEF SameSources
<1>3. CASE RenameControl \/ NoteControl
  <2>1. snap \in Snapshots /\ cur \in DOMAIN snap.users
    BY <1>3 DEF RenameControl, NoteControl, TypeOK, PointsOK
  <2>2. cur \in Ids /\ snap.users[cur].name \in Names /\ snap.users[cur].note \in Notes
    BY <2>1, SnapFacts
  <2>3. \/ users' = users
        \/ users' = SetName(cur, snap.users[cur].name)
        \/ users' = SetNote(cur, snap.users[cur].note)
    BY <1>3 DEF RenameControl, NoteControl
  <2> QED
    BY <1>1, <1>2, <2>2, <2>3, SetNameSources, SetNoteSources
<1>4. ASSUME NEW a \in Admins, AdminRename(a) PROVE SameSources(users')
  <2>1. admin[a].id \in Ids /\ admin[a].name \in Names
    BY <1>4 DEF AdminRename, TypeOK, PointsOK
  <2>2. users' = users \/ users' = SetName(admin[a].id, admin[a].name)
    BY <1>4 DEF AdminRename
  <2> QED
    BY <1>1, <1>2, <2>1, <2>2, SetNameSources
<1>5. ASSUME NEW a \in Admins, AdminNote(a) PROVE SameSources(users')
  <2>1. admin[a].id \in Ids /\ admin[a].note \in Notes
    BY <1>5 DEF AdminNote, TypeOK, PointsOK
  <2>2. users' = SetNote(admin[a].id, admin[a].note)
    BY <1>5 DEF AdminNote
  <2> QED
    BY <1>1, <2>1, <2>2, SetNoteSources
<1> QED
  BY <1>3, <1>4, <1>5

(* Every write has the type of its column.                                 *)
LEMMA TypeStep == OwnershipInv /\ [Next]_vars => TypeOK'
<1> SUFFICES ASSUME OwnershipInv, [Next]_vars PROVE TypeOK'
  OBVIOUS
<1> USE DEF OwnershipInv
<1>1. pc # "idle" => snap \in Snapshots
  BY DEF TypeOK
<1>2. pc # "idle" =>
        /\ DOMAIN snap.users \subseteq Ids /\ snap.delete \subseteq Ids
        /\ snap.rules \subseteq Rules
        /\ snap.settings \in Settings \union {None}
        /\ snap.cursor \in Cursors \union {None}
        /\ snap.kind \in {"full", "delta", "none"}
  BY <1>1, SnapFacts
<1>3. pc \in {"upsert", "note"} =>
        /\ cur \in Ids
        /\ snap.users[cur].name \in Names /\ snap.users[cur].note \in Notes
  BY SnapFacts DEF PointsOK, TypeOK
<1>4. CASE UNCHANGED vars
  BY <1>4 DEF vars, db, poller, TypeOK
<1>5. ASSUME NEW s \in Snapshots, Receive(s) PROVE TypeOK'
  BY <1>5, SnapFacts, ControlAssumption DEF Receive, db, TypeOK
<1>6. CASE ApplySettings
  BY <1>6, <1>2 DEF ApplySettings, TypeOK
<1>7. ASSUME NEW i \in Ids, ReadForUpsert(i) PROVE TypeOK'
  BY <1>7 DEF ReadForUpsert, db, TypeOK
<1>8. CASE CreateControl
  BY <1>8, <1>3 DEF CreateControl, Row, TypeOK
<1>9. CASE SkipLocal
  BY <1>9, <1>3 DEF SkipLocal, db, TypeOK
<1>10. CASE RenameControl
  BY <1>10, UpdateStep DEF RenameControl, TypeOK, SameSources
<1>11. CASE NoteControl
  BY <1>11, UpdateStep DEF NoteControl, TypeOK, SameSources
<1>12. CASE UpsertsDone
  BY <1>12, <1>2 DEF UpsertsDone, db, TypeOK
<1>13. ASSUME NEW i \in Ids, PruneOne(i) PROVE TypeOK'
  BY <1>13 DEF PruneOne, TypeOK
<1>14. ASSUME NEW i \in Ids, ReadForDelete(i) PROVE TypeOK'
  BY <1>14 DEF ReadForDelete, db, TypeOK
<1>15. CASE DeleteControl
  BY <1>15 DEF DeleteControl, TypeOK, PointsOK
<1>16. CASE DeletesDone
  BY <1>16 DEF DeletesDone, db, TypeOK
<1>17. CASE ReadRules
  BY <1>17, <1>2 DEF ReadRules, db, TypeOK
<1>18. ASSUME NEW r \in Rules, RemoveRule(r) PROVE TypeOK'
  BY <1>18 DEF RemoveRule, TypeOK
<1>19. ASSUME NEW r \in Rules, AddRule(r) PROVE TypeOK'
  BY <1>19 DEF AddRule, TypeOK
<1>20. CASE RulesDone
  BY <1>20 DEF RulesDone, db, TypeOK
<1>21. CASE ClearCursor
  BY <1>21 DEF ClearCursor, TypeOK
<1>22. CASE WriteCursor
  BY <1>22, <1>2 DEF WriteCursor, TickOver, TypeOK
<1>23. CASE ReconcileFails
  BY <1>23 DEF ReconcileFails, TickOver, db, TypeOK
<1>24. ASSUME NEW i \in Ids, NEW n \in Names, NEW t \in Notes, AdminCreate(i, n, t) PROVE TypeOK'
  BY <1>24 DEF AdminCreate, Row, poller, TypeOK
<1>25. ASSUME NEW a \in Admins, NEW i \in Ids, NEW n \in Names \union {None},
             NEW t \in Notes \union {None}, AdminPatch(a, i, n, t) PROVE TypeOK'
  BY <1>25 DEF AdminPatch, db, poller, TypeOK
<1>26. ASSUME NEW a \in Admins, NEW i \in Ids, AdminDelete(a, i) PROVE TypeOK'
  BY <1>26 DEF AdminDelete, db, poller, TypeOK
<1>27. ASSUME NEW a \in Admins, AdminRename(a) PROVE TypeOK'
  <2>1. admin[a] \in [pc : {"idle", "rename", "note", "delete"}, id : Ids \union {None},
                      name : Names \union {None}, note : Notes \union {None}]
    BY DEF TypeOK
  <2>2. /\ [admin[a] EXCEPT !.pc = "note"] \in
             [pc : {"idle", "rename", "note", "delete"}, id : Ids \union {None},
              name : Names \union {None}, note : Notes \union {None}]
        /\ IdleAdmin \in
             [pc : {"idle", "rename", "note", "delete"}, id : Ids \union {None},
              name : Names \union {None}, note : Notes \union {None}]
    BY <2>1 DEF IdleAdmin
  <2>3. admin' = [admin EXCEPT ![a] = [admin[a] EXCEPT !.pc = "note"]]
        \/ admin' = [admin EXCEPT ![a] = IdleAdmin]
    BY <1>27 DEF AdminRename
  <2>4. admin' \in [Admins -> [pc : {"idle", "rename", "note", "delete"},
                               id : Ids \union {None}, name : Names \union {None},
                               note : Notes \union {None}]]
    BY <2>2, <2>3 DEF TypeOK
  <2>5. users' \in [Ids -> Row \union {None}]
    BY <1>27, UpdateStep DEF SameSources
  <2> QED
    BY <1>27, <2>4, <2>5 DEF AdminRename, TypeOK, poller
<1>28. ASSUME NEW a \in Admins, AdminNote(a) PROVE TypeOK'
  <2>1. users' \in [Ids -> Row \union {None}]
    BY <1>28, UpdateStep DEF SameSources
  <2> QED
    BY <1>28, <2>1 DEF AdminNote, TypeOK, IdleAdmin, poller
<1>29. ASSUME NEW a \in Admins, AdminErase(a) PROVE TypeOK'
  BY <1>29 DEF AdminErase, IdleAdmin, poller, TypeOK
<1>30. CASE TakePermit
  BY <1>30 DEF TakePermit, db, poller, TypeOK
<1>31. CASE Crash
  BY <1>31 DEF Crash, TickOver, IdleAdmin, db, TypeOK
<1>32. ASSUME NEW a \in Admins, AdminGivesUp(a) PROVE TypeOK'
  BY <1>32 DEF AdminGivesUp, IdleAdmin, db, poller, TypeOK
<1> QED
  BY <1>4, <1>5, <1>6, <1>7, <1>8, <1>9, <1>10, <1>11, <1>12, <1>13, <1>14, <1>15, <1>16,
     <1>17, <1>18, <1>19, <1>20, <1>21, <1>22, <1>23, <1>24, <1>25, <1>26, <1>27, <1>28,
     <1>29, <1>30, <1>31, <1>32
     DEF Next, Poller, Apply, Admin

(* Every statement leaves the program point the next one relies on.        *)
LEMMA PointsStep == OwnershipInv /\ [Next]_vars => PointsOK'
<1> SUFFICES ASSUME OwnershipInv, [Next]_vars PROVE PointsOK'
  OBVIOUS
<1> USE DEF OwnershipInv
<1>1. pc # "idle" => snap \in Snapshots
  BY DEF TypeOK
<1>2. pc # "idle" =>
        /\ DOMAIN snap.users \subseteq Ids /\ snap.delete \subseteq Ids
        /\ snap.rules \subseteq Rules
        /\ snap.settings \in Settings \union {None}
        /\ snap.cursor \in Cursors \union {None}
        /\ snap.kind \in {"full", "delta", "none"}
  BY <1>1, SnapFacts
<1>3. pc \in {"upsert", "note"} =>
        /\ cur \in Ids
        /\ snap.users[cur].name \in Names /\ snap.users[cur].note \in Notes
  BY SnapFacts DEF PointsOK, TypeOK
<1>4. CASE UNCHANGED vars
  BY <1>4 DEF vars, poller, PointsOK
<1>5. ASSUME NEW s \in Snapshots, Receive(s) PROVE PointsOK'
  BY <1>5 DEF Receive, PointsOK
<1>6. CASE ApplySettings
  BY <1>6 DEF ApplySettings, PointsOK
<1>7. ASSUME NEW i \in Ids, ReadForUpsert(i) PROVE PointsOK'
  BY <1>7 DEF ReadForUpsert, PointsOK
<1>8. CASE CreateControl
  BY <1>8 DEF CreateControl, PointsOK
<1>9. CASE SkipLocal
  BY <1>9 DEF SkipLocal, PointsOK
<1>10. CASE RenameControl
  BY <1>10, <1>3 DEF RenameControl, PointsOK
<1>11. CASE NoteControl
  BY <1>11 DEF NoteControl, PointsOK
<1>12. CASE UpsertsDone
  BY <1>12 DEF UpsertsDone, PointsOK
<1>13. ASSUME NEW i \in Ids, PruneOne(i) PROVE PointsOK'
  BY <1>13 DEF PruneOne, PointsOK
<1>14. ASSUME NEW i \in Ids, ReadForDelete(i) PROVE PointsOK'
  BY <1>14 DEF ReadForDelete, PointsOK, Exists
<1>15. CASE DeleteControl
  BY <1>15 DEF DeleteControl, PointsOK
<1>16. CASE DeletesDone
  BY <1>16 DEF DeletesDone, PointsOK
<1>17. CASE ReadRules
  BY <1>17 DEF ReadRules, PointsOK
<1>18. ASSUME NEW r \in Rules, RemoveRule(r) PROVE PointsOK'
  BY <1>18 DEF RemoveRule, PointsOK
<1>19. ASSUME NEW r \in Rules, AddRule(r) PROVE PointsOK'
  BY <1>19 DEF AddRule, PointsOK
<1>20. CASE RulesDone
  BY <1>20 DEF RulesDone, PointsOK
<1>21. CASE ClearCursor
  BY <1>21 DEF ClearCursor, PointsOK
<1>22. CASE WriteCursor
  BY <1>22 DEF WriteCursor, TickOver, PointsOK
<1>23. CASE ReconcileFails
  BY <1>23 DEF ReconcileFails, TickOver, PointsOK
<1>24. ASSUME NEW i \in Ids, NEW n \in Names, NEW t \in Notes, AdminCreate(i, n, t) PROVE PointsOK'
  BY <1>24 DEF AdminCreate, poller, PointsOK
<1>25. ASSUME NEW a \in Admins, NEW i \in Ids, NEW n \in Names \union {None},
             NEW t \in Notes \union {None}, AdminPatch(a, i, n, t) PROVE PointsOK'
  BY <1>25, ControlAssumption DEF AdminPatch, poller, PointsOK
<1>26. ASSUME NEW a \in Admins, NEW i \in Ids, AdminDelete(a, i) PROVE PointsOK'
  BY <1>26, ControlAssumption DEF AdminDelete, poller, PointsOK
<1>27. ASSUME NEW a \in Admins, AdminRename(a) PROVE PointsOK'
  BY <1>27 DEF AdminRename, IdleAdmin, poller, PointsOK
<1>28. ASSUME NEW a \in Admins, AdminNote(a) PROVE PointsOK'
  BY <1>28 DEF AdminNote, IdleAdmin, poller, PointsOK
<1>29. ASSUME NEW a \in Admins, AdminErase(a) PROVE PointsOK'
  BY <1>29 DEF AdminErase, IdleAdmin, poller, PointsOK
<1>30. CASE TakePermit
  BY <1>30 DEF TakePermit, poller, PointsOK
<1>31. CASE Crash
  BY <1>31 DEF Crash, TickOver, IdleAdmin, PointsOK
<1>32. ASSUME NEW a \in Admins, AdminGivesUp(a) PROVE PointsOK'
  BY <1>32 DEF AdminGivesUp, IdleAdmin, poller, PointsOK
<1> QED
  BY <1>4, <1>5, <1>6, <1>7, <1>8, <1>9, <1>10, <1>11, <1>12, <1>13, <1>14, <1>15, <1>16,
     <1>17, <1>18, <1>19, <1>20, <1>21, <1>22, <1>23, <1>24, <1>25, <1>26, <1>27, <1>28,
     <1>29, <1>30, <1>31, <1>32
     DEF Next, Poller, Apply, Admin

(* No step makes local a row the poller has already decided to touch.      *)
LEMMA ClaimedStep == OwnershipInv /\ [Next]_vars => Claimed'
<1> SUFFICES ASSUME OwnershipInv, [Next]_vars PROVE Claimed'
  OBVIOUS
<1> USE DEF OwnershipInv
<1>1. pc # "idle" => snap \in Snapshots
  BY DEF TypeOK
<1>2. pc # "idle" =>
        /\ DOMAIN snap.users \subseteq Ids /\ snap.delete \subseteq Ids
        /\ snap.rules \subseteq Rules
        /\ snap.settings \in Settings \union {None}
        /\ snap.cursor \in Cursors \union {None}
        /\ snap.kind \in {"full", "delta", "none"}
  BY <1>1, SnapFacts
<1>3. pc \in {"upsert", "note"} =>
        /\ cur \in Ids
        /\ snap.users[cur].name \in Names /\ snap.users[cur].note \in Notes
  BY SnapFacts DEF PointsOK, TypeOK
<1>4. CASE UNCHANGED vars
  BY <1>4 DEF vars, db, poller, Claimed, Exists, IsLocal
<1>5. ASSUME NEW s \in Snapshots, Receive(s) PROVE Claimed'
  BY <1>5 DEF Receive, db, Claimed, Exists
<1>6. CASE ApplySettings
  BY <1>6 DEF ApplySettings, Claimed, Exists
<1>7. ASSUME NEW i \in Ids, ReadForUpsert(i) PROVE Claimed'
  BY <1>7 DEF ReadForUpsert, db, Claimed, Exists, IsLocal
<1>8. CASE CreateControl
  BY <1>8 DEF CreateControl, TypeOK, PointsOK, Claimed, Exists
<1>9. CASE SkipLocal
  BY <1>9 DEF SkipLocal, db, Claimed, Exists
<1>10. CASE RenameControl
  BY <1>10, UpdateStep DEF RenameControl, TypeOK, Claimed, Exists, IsLocal, SameSources
<1>11. CASE NoteControl
  BY <1>11, UpdateStep DEF NoteControl, Claimed, Exists, SameSources
<1>12. CASE UpsertsDone
  BY <1>12 DEF UpsertsDone, db, TypeOK, Claimed, Exists, IsLocal, IsControl
<1>13. ASSUME NEW i \in Ids, PruneOne(i) PROVE Claimed'
  BY <1>13 DEF PruneOne, Claimed, Exists, IsLocal
<1>14. ASSUME NEW i \in Ids, ReadForDelete(i) PROVE Claimed'
  BY <1>14 DEF ReadForDelete, db, Claimed, Exists, IsLocal
<1>15. CASE DeleteControl
  <2>1. cur \in Ids
    BY <1>15 DEF DeleteControl, PointsOK
  <2>2. \A i \in Ids : users'[i] = users[i] \/ users'[i] = None
    BY <1>15, <2>1 DEF DeleteControl, TypeOK
  <2> QED
    BY <1>15, <2>2 DEF DeleteControl, Claimed, Exists
<1>16. CASE DeletesDone
  BY <1>16 DEF DeletesDone, db, Claimed, Exists
<1>17. CASE ReadRules
  BY <1>17 DEF ReadRules, db, Claimed, Exists
<1>18. ASSUME NEW r \in Rules, RemoveRule(r) PROVE Claimed'
  BY <1>18 DEF RemoveRule, Claimed, Exists
<1>19. ASSUME NEW r \in Rules, AddRule(r) PROVE Claimed'
  BY <1>19 DEF AddRule, Claimed, Exists
<1>20. CASE RulesDone
  BY <1>20 DEF RulesDone, db, Claimed, Exists
<1>21. CASE ClearCursor
  BY <1>21 DEF ClearCursor, Claimed, Exists
<1>22. CASE WriteCursor
  BY <1>22 DEF WriteCursor, TickOver, Claimed, Exists
<1>23. CASE ReconcileFails
  BY <1>23 DEF ReconcileFails, TickOver, db, Claimed, Exists
<1>24. ASSUME NEW i \in Ids, NEW n \in Names, NEW t \in Notes, AdminCreate(i, n, t) PROVE Claimed'
  BY <1>24 DEF AdminCreate, poller, Claimed, Exists, IsLocal
<1>25. ASSUME NEW a \in Admins, NEW i \in Ids, NEW n \in Names \union {None},
             NEW t \in Notes \union {None}, AdminPatch(a, i, n, t) PROVE Claimed'
  BY <1>25 DEF AdminPatch, db, poller, Claimed, Exists, IsLocal
<1>26. ASSUME NEW a \in Admins, NEW i \in Ids, AdminDelete(a, i) PROVE Claimed'
  BY <1>26 DEF AdminDelete, db, poller, Claimed, Exists, IsLocal
<1>27. ASSUME NEW a \in Admins, AdminRename(a) PROVE Claimed'
  BY <1>27, UpdateStep
     DEF AdminRename, TypeOK, Claimed, Exists, IsLocal, poller, SameSources
<1>28. ASSUME NEW a \in Admins, AdminNote(a) PROVE Claimed'
  BY <1>28, UpdateStep DEF AdminNote, TypeOK, Claimed, Exists, IsLocal, poller, SameSources
<1>29. ASSUME NEW a \in Admins, AdminErase(a) PROVE Claimed'
  BY <1>29 DEF AdminErase, poller, Claimed, Exists, IsLocal
<1>30. CASE TakePermit
  BY <1>30 DEF TakePermit, db, poller, Claimed, Exists, IsLocal
<1>31. CASE Crash
  BY <1>31 DEF Crash, TickOver, db, Claimed, Exists
<1>32. ASSUME NEW a \in Admins, AdminGivesUp(a) PROVE Claimed'
  BY <1>32 DEF AdminGivesUp, db, poller, Claimed, Exists, IsLocal
<1> QED
  BY <1>4, <1>5, <1>6, <1>7, <1>8, <1>9, <1>10, <1>11, <1>12, <1>13, <1>14, <1>15, <1>16,
     <1>17, <1>18, <1>19, <1>20, <1>21, <1>22, <1>23, <1>24, <1>25, <1>26, <1>27, <1>28,
     <1>29, <1>30, <1>31, <1>32
     DEF Next, Poller, Apply, Admin

(* Type correctness and the ownership invariant hold in every reachable    *)
(* state, for any ids, names, server responses, policy and number of       *)
(* concurrent admin requests.                                              *)
THEOREM Ownership == Spec => []OwnershipInv
<1>1. OwnershipInv /\ [Next]_vars => OwnershipInv'
  BY TypeStep, PointsStep, ClaimedStep DEF OwnershipInv
<1> QED
  BY InitOwnership, <1>1, PTL DEF Spec

(* The type invariant alone.                                               *)
THEOREM TypeCorrect == Spec => []TypeOK
<1>1. OwnershipInv => TypeOK
  BY DEF OwnershipInv
<1> QED
  BY Ownership, <1>1, PTL

LEMMA PollerStep ==
  ASSUME OwnershipInv, Poller, NEW i \in Ids, IsLocal(i)
  PROVE  users'[i] = users[i]
<1> USE DEF OwnershipInv
<1>1. CASE UNCHANGED users
  BY <1>1
<1>2. CASE CreateControl
  BY <1>2 DEF CreateControl, IsLocal
<1>3. CASE RenameControl
  BY <1>3 DEF RenameControl, SetName, TypeOK, Claimed
<1>4. CASE NoteControl
  BY <1>4 DEF NoteControl, SetNote, TypeOK, PointsOK, Claimed
<1>5. ASSUME NEW j \in Ids, PruneOne(j) PROVE users'[i] = users[i]
  BY <1>5 DEF PruneOne, Claimed
<1>6. CASE DeleteControl
  <2>1. seen.src \in {"local", "control"}
    BY <1>6 DEF DeleteControl, TypeOK, PointsOK, Row
  <2> QED
    BY <1>6, <2>1 DEF DeleteControl, TypeOK, PointsOK, Claimed
<1>7. \/ UNCHANGED users
      \/ CreateControl \/ RenameControl \/ NoteControl \/ DeleteControl
      \/ \E j \in Ids : PruneOne(j)
  BY DEF Poller, Apply, Receive, ApplySettings, ReadForUpsert, SkipLocal, UpsertsDone,
         ReadForDelete, DeletesDone, ReadRules, RemoveRule, AddRule, RulesDone, ClearCursor,
         WriteCursor, ReconcileFails, db
<1> QED
  BY <1>2, <1>3, <1>4, <1>5, <1>6, <1>7

(* The ownership boundary: no statement of the poller changes a row that   *)
(* is local when the statement runs, whatever the administrators did since *)
(* the poller looked.                                                      *)
THEOREM PollerSpares == Spec => PollerSparesLocal
<1>1. OwnershipInv =>
        [Poller => \A i \in Ids : IsLocal(i) => users'[i] = users[i]]_vars
  BY PollerStep
<1> QED
  BY Ownership, <1>1, PTL DEF PollerSparesLocal

(* With one admin request at a time, what assert_locally_writable checked  *)
(* still holds when the request's statements run: nobody else deletes a    *)
(* local row, so none can come back under its id as a control row.  With   *)
(* two, another admin's delete lets it come back; that case breaks         *)
(* AdminSparesControl, so this serves only CursorIsApplied, which says     *)
(* nothing of what a second admin overwrites.                              *)
HoldsLocal == \A a \in Admins : admin[a].pc # "idle" => IsLocal(admin[a].id)

LEMMA HoldsStep ==
  ASSUME \A a, b \in Admins : a = b
  PROVE  OwnershipInv /\ HoldsLocal /\ [Next]_vars => HoldsLocal'
<1> SUFFICES ASSUME OwnershipInv, HoldsLocal, [Next]_vars PROVE HoldsLocal'
  OBVIOUS
<1> USE DEF OwnershipInv
<1>1. \A a \in Admins : admin[a].pc # "idle" => admin[a].id \in Ids
  BY DEF TypeOK, PointsOK
<1>2. CASE UNCHANGED <<users, admin>>
  BY <1>2 DEF HoldsLocal, IsLocal, Exists
<1>3. CASE Poller
  <2>1. admin' = admin
    BY <1>3
       DEF Poller, Apply, Receive, ApplySettings, ReadForUpsert, CreateControl, SkipLocal,
           RenameControl, NoteControl, UpsertsDone, PruneOne, ReadForDelete, DeleteControl,
           DeletesDone, ReadRules, RemoveRule, AddRule, RulesDone, ClearCursor, WriteCursor,
           ReconcileFails
  <2> QED
    BY <1>1, <1>3, <2>1, PollerStep DEF HoldsLocal, IsLocal, Exists
<1>4. ASSUME NEW i \in Ids, NEW n \in Names, NEW t \in Notes, AdminCreate(i, n, t)
      PROVE  HoldsLocal'
  BY <1>4 DEF AdminCreate, HoldsLocal, IsLocal, Exists
<1>5. ASSUME NEW a \in Admins, NEW i \in Ids, NEW n \in Names \union {None},
             NEW t \in Notes \union {None}, AdminPatch(a, i, n, t)
      PROVE  HoldsLocal'
  BY <1>5 DEF AdminPatch, HoldsLocal, IsLocal, Exists, db
<1>6. ASSUME NEW a \in Admins, NEW i \in Ids, AdminDelete(a, i) PROVE HoldsLocal'
  BY <1>6 DEF AdminDelete, HoldsLocal, IsLocal, Exists, db
<1>7. ASSUME NEW a \in Admins, AdminRename(a) PROVE HoldsLocal'
  <2>1. SameSources(users')
    BY <1>7, UpdateStep
  <2>2. \A i \in Ids : IsLocal(i)' <=> IsLocal(i)
    BY <2>1 DEF SameSources, IsLocal, Exists
  <2>3. \A b \in Admins : admin'[b].pc # "idle" => /\ admin[b].pc # "idle"
                                                   /\ admin'[b].id = admin[b].id
    <3>1. \/ admin' = [admin EXCEPT ![a] = IdleAdmin]
          \/ admin' = [admin EXCEPT ![a] = [admin[a] EXCEPT !.pc = "note"]]
      BY <1>7 DEF AdminRename
    <3>2. admin[a].pc = "rename"
      BY <1>7 DEF AdminRename
    <3> QED
      BY <3>1, <3>2 DEF TypeOK, IdleAdmin
  <2> QED
    BY <1>1, <2>2, <2>3 DEF HoldsLocal
<1>8. ASSUME NEW a \in Admins, AdminNote(a) PROVE HoldsLocal'
  BY <1>8 DEF AdminNote, HoldsLocal, TypeOK, IdleAdmin
<1>9. ASSUME NEW a \in Admins, AdminErase(a) PROVE HoldsLocal'
  <2>1. admin' = [admin EXCEPT ![a] = IdleAdmin]
    BY <1>9 DEF AdminErase
  <2>2. \A b \in Admins : admin'[b].pc = "idle"
    BY <2>1 DEF TypeOK, IdleAdmin
  <2> QED
    BY <2>2 DEF HoldsLocal
<1>10. CASE Crash
  BY <1>10 DEF Crash, IdleAdmin, HoldsLocal
<1>11. ASSUME NEW a \in Admins, AdminGivesUp(a) PROVE HoldsLocal'
  BY <1>11 DEF AdminGivesUp, IdleAdmin, HoldsLocal, IsLocal, Exists, db
<1> QED
  BY <1>2, <1>3, <1>4, <1>5, <1>6, <1>7, <1>8, <1>9, <1>10, <1>11
     DEF Next, Admin, TakePermit, vars, db

LEMMA AdminStep ==
  ASSUME OwnershipInv, HoldsLocal, Admin, NEW i \in Ids
  PROVE  (IsControl(i) => users'[i] = users[i]) /\ (IsControl(i)' => IsControl(i))
<1> USE DEF OwnershipInv
<1>1. ASSUME NEW a \in Admins, AdminRename(a) \/ AdminNote(a)
      PROVE  (IsControl(i) => users'[i] = users[i]) /\ (IsControl(i)' => IsControl(i))
  <2>1. IsControl(i) => i # admin[a].id
    BY <1>1 DEF AdminRename, AdminNote, HoldsLocal, IsLocal, IsControl
  <2>2. i # admin[a].id => users'[i] = users[i]
    BY <1>1 DEF AdminRename, AdminNote, SetName, SetNote, TypeOK
  <2>3. IsControl(i)' => IsControl(i)
    BY <1>1, UpdateStep DEF SameSources, IsControl, Exists
  <2> QED
    BY <2>1, <2>2, <2>3
<1>2. ASSUME NEW a \in Admins, AdminErase(a)
      PROVE  (IsControl(i) => users'[i] = users[i]) /\ (IsControl(i)' => IsControl(i))
  BY <1>2 DEF AdminErase, HoldsLocal, IsLocal, IsControl, Exists, TypeOK
<1>3. ASSUME NEW j \in Ids, NEW n \in Names, NEW t \in Notes, AdminCreate(j, n, t)
      PROVE  (IsControl(i) => users'[i] = users[i]) /\ (IsControl(i)' => IsControl(i))
  BY <1>3 DEF AdminCreate, IsControl, Exists, TypeOK
<1>4. CASE UNCHANGED users
  BY <1>4 DEF IsControl, Exists
<1> QED
  BY <1>1, <1>2, <1>3, <1>4 DEF Admin, AdminPatch, AdminDelete, AdminGivesUp, db

LEMMA InitHolds == Init => HoldsLocal
BY DEF Init, HoldsLocal, IdleAdmin

----------------------------------------------------------------------------
(* How far a tick has got.  Every listed user but those before it is in    *)
(* place, and what it has read of the one in its hands is still there; ... *)
Upserted(i) == i \notin todo /\ (pc \in {"upsert", "note"} => i # cur)
Upserts ==
  /\ pc \in {"users", "upsert", "note"} => \A i \in DOMAIN snap.users : Upserted(i) => UserApplied(i)
  /\ pc \in {"upsert", "note"} => cur \notin todo
  /\ pc = "upsert" /\ seen # None =>
       IF seen.src = "control" THEN users[cur] = seen ELSE ~IsControl(cur)
  /\ pc = "note" =>
       users[cur] = [name |-> snap.users[cur].name, note |-> seen.note, src |-> "control"]

(* ... so is every listed user, and what is to go is gone or before it; ...*)
Deletes ==
  /\ pc = "prune" =>
       /\ snap.kind = "full" /\ \A i \in DOMAIN snap.users : UserApplied(i)
       /\ dels \cap DOMAIN snap.users = {}
       /\ Prunes => \A i \in Ids \ DOMAIN snap.users : IsControl(i) => i \in dels
  /\ pc \in {"delta", "delete"} =>
       /\ snap.kind = "delta" /\ \A i \in DOMAIN snap.users \ snap.delete : UserApplied(i)
       /\ dels \subseteq snap.delete
       /\ \A i \in snap.delete : IsControl(i) => i \in dels \/ (pc = "delete" /\ i = cur)
  /\ pc = "delete" => cur \in snap.delete /\ (seen.src = "local" => ~IsControl(cur))

(* ... the users are done, the rules that are wrong are before it.         *)
RulesLeft ==
  /\ pc \in {"rules", "apply", "clear", "write"} => UsersApplied
  /\ pc = "apply" /\ snap.hasRules /\ HasIptables =>
       /\ snap.rules \ rules \subseteq fresh /\ fresh \subseteq snap.rules
       /\ stale \cap snap.rules = {} /\ (Prunes => rules \ snap.rules \subseteq stale)
  /\ pc \in {"clear", "write"} => RulesApplied

Progress == Upserts /\ Deletes /\ RulesLeft

(* What a user's place depends on.                                         *)
LEMMA StaysApplied ==
  ASSUME NEW i, UserApplied(i), snap' = snap, users'[i] = users[i], skipped \subseteq skipped'
  PROVE  UserApplied(i)'
BY DEF UserApplied, IsControl, Exists

(* A row with wanted content is a control row.                             *)
LEMMA WantedIsControl ==
  ASSUME OwnershipInv, pc # "idle", NEW i \in DOMAIN snap.users,
         users[i] = [name |-> snap.users[i].name, note |-> snap.users[i].note, src |-> "control"]
  PROVE  IsControl(i)
<1>1. snap.users[i].name \in Names /\ snap.users[i].note \in Notes
  BY SnapFacts DEF OwnershipInv, TypeOK
<1> QED
  BY <1>1, ControlAssumption DEF IsControl, Exists, Row

(* Nobody but the poller touches what it has put in place.                 *)
LEMMA ElsewhereProgress ==
  ASSUME OwnershipInv, Progress, UNCHANGED <<poller, rules>>,
         \A i \in Ids : (IsControl(i) => users'[i] = users[i]) /\ (IsControl(i)' => IsControl(i))
  PROVE  Progress'
<1>1. pc # "idle" => DOMAIN snap.users \subseteq Ids /\ snap.delete \subseteq Ids
  BY SnapFacts DEF OwnershipInv, TypeOK
<1>2. UNCHANGED <<pc, snap, todo, cur, seen, dels, stale, fresh, skipped>>
  BY DEF poller
<1>3. ASSUME pc # "idle", NEW i \in DOMAIN snap.users, UserApplied(i)
      PROVE  UserApplied(i)'
  <2>1. i \in Ids
    BY <1>1, <1>3
  <2>2. CASE i \in skipped /\ ~IsControl(i)
    BY <1>2, <2>1, <2>2 DEF UserApplied
  <2>3. CASE users[i] = [name |-> snap.users[i].name, note |-> snap.users[i].note, src |-> "control"]
    BY <1>2, <1>3, <2>1, <2>3, WantedIsControl DEF UserApplied
  <2> QED
    BY <1>3, <2>2, <2>3 DEF UserApplied
<1>4. Upserts'
  <2>1. pc \in {"upsert", "note"} => cur \in Ids /\ cur \in DOMAIN snap.users
    BY <1>1 DEF OwnershipInv, PointsOK
  <2>2. pc = "upsert" /\ seen # None /\ seen.src = "control" => IsControl(cur)
    BY DEF Progress, Upserts, IsControl, Exists
  <2>3. pc = "note" => IsControl(cur)
    <3>1. pc = "note" => seen # None /\ seen \in Row /\ users[cur].src = "control"
      BY DEF OwnershipInv, TypeOK, PointsOK, Progress, Upserts
    <3>2. pc = "note" => snap.users[cur].name \in Names
      BY <2>1, SnapFacts DEF OwnershipInv, TypeOK
    <3>3. pc = "note" => users[cur] \in Row
      BY <3>1, <3>2 DEF Progress, Upserts, Row
    <3> QED
      BY <3>1, <3>3, ControlAssumption DEF IsControl, Exists
  <2> QED
    BY <1>2, <1>3, <2>1, <2>2, <2>3 DEF Progress, Upserts, Upserted
<1>5. Deletes'
  BY <1>1, <1>2, <1>3 DEF Progress, Deletes, Prunes
<1>6. RulesLeft'
  <2>1. UsersApplied /\ pc # "idle" => UsersApplied'
    BY <1>1, <1>2, <1>3 DEF UsersApplied, Prunes
  <2> QED
    BY <1>2, <2>1 DEF Progress, RulesLeft, RulesApplied, Prunes
<1> QED
  BY <1>4, <1>5, <1>6 DEF Progress

(* The upserts.                                                            *)
LEMMA UpsertProgress ==
  ASSUME OwnershipInv, Progress,
         \/ \E i \in Ids : ReadForUpsert(i)
         \/ CreateControl \/ SkipLocal \/ RenameControl \/ NoteControl
  PROVE  Progress'
<1> USE DEF OwnershipInv
<1>1. snap \in Snapshots /\ pc' \in {"users", "upsert", "note"} /\ snap' = snap
  BY DEF TypeOK, ReadForUpsert, CreateControl, SkipLocal, RenameControl, NoteControl
<1>2. DOMAIN snap.users \subseteq Ids /\ users \in [Ids -> Row \union {None}]
  BY <1>1, SnapFacts DEF TypeOK
<1>3. Deletes' /\ RulesLeft'
  BY <1>1 DEF Deletes, RulesLeft
<1>4. ASSUME NEW i \in Ids, ReadForUpsert(i) PROVE Upserts'
  <2>1. /\ pc = "users" /\ pc' = "upsert" /\ cur' = i /\ seen' = users[i] /\ todo' = todo \ {i}
        /\ UNCHANGED <<users, skipped>>
    BY <1>4 DEF ReadForUpsert, db
  <2>2. ASSUME NEW j \in DOMAIN snap.users, Upserted(j)' PROVE UserApplied(j)'
    <3>1. Upserted(j) /\ UserApplied(j)
      BY <2>1, <2>2 DEF Upserted, Progress, Upserts
    <3> QED
      BY <1>1, <2>1, <3>1, StaysApplied
  <2>3. seen' # None => IF seen'.src = "control" THEN users'[i] = seen' ELSE ~IsControl(i)'
    BY <2>1 DEF IsControl, Exists
  <2> QED
    BY <1>1, <2>1, <2>2, <2>3 DEF Upserts
<1>5. ASSUME CreateControl \/ SkipLocal \/ NoteControl PROVE Upserts'
  <2>1. /\ pc' = "users" /\ todo' = todo /\ cur \in DOMAIN snap.users /\ cur \in Ids
        /\ cur \notin todo /\ skipped \subseteq skipped'
        /\ pc \in {"upsert", "note"}
    BY <1>2, <1>5 DEF CreateControl, SkipLocal, NoteControl, PointsOK, Progress, Upserts
  <2>2. PICK i \in Ids : i = cur
    BY <2>1
  <2>3. \A j \in Ids : j # i => users'[j] = users[j]
    BY <1>2, <1>5, <2>1, <2>2 DEF CreateControl, SkipLocal, NoteControl, SetNote, db
  <2>4. UserApplied(i)'
    <3>1. CASE CreateControl
      BY <1>2, <2>2, <3>1 DEF CreateControl, UserApplied
    <3>2. CASE SkipLocal
      BY <2>2, <3>2 DEF SkipLocal, db, UserApplied, Progress, Upserts, IsControl, Exists
    <3>3. CASE NoteControl
      <4>1. users[cur] = [name |-> snap.users[cur].name, note |-> seen.note, src |-> "control"]
        BY <3>3 DEF NoteControl, Progress, Upserts
      <4>2. Exists(cur)
        <5>1. seen \in Row /\ snap.users[cur].name \in Names
          BY <1>1, <2>1, <3>3, SnapFacts DEF NoteControl, PointsOK, TypeOK
        <5>2. users[cur] \in Row
          BY <4>1, <5>1 DEF Row
        <5> QED
          BY <5>2, ControlAssumption DEF Exists
      <4> QED
        BY <1>1, <1>2, <2>2, <3>3, <4>1, <4>2 DEF NoteControl, SetNote, UserApplied
    <3> QED
      BY <1>5, <3>1, <3>2, <3>3
  <2>5. ASSUME NEW j \in DOMAIN snap.users, j \notin todo PROVE UserApplied(j)'
    <3>1. CASE j = i
      BY <2>4, <3>1
    <3>2. CASE j # i
      <4>1. UserApplied(j)
        BY <2>1, <2>2, <2>5, <3>2 DEF Upserted, Progress, Upserts
      <4> QED
        BY <1>1, <1>2, <2>1, <2>3, <3>2, <4>1, StaysApplied
    <3> QED
      BY <3>1, <3>2
  <2> QED
    BY <1>1, <2>1, <2>5 DEF Upserts, Upserted
<1>6. ASSUME RenameControl PROVE Upserts'
  <2>1. /\ pc = "upsert" /\ pc' = "note" /\ UNCHANGED <<todo, cur, seen, skipped>>
        /\ cur \in DOMAIN snap.users /\ cur \in Ids /\ cur \notin todo
        /\ seen # None /\ seen.src = "control" /\ users[cur] = seen /\ seen \in Row
    BY <1>2, <1>6 DEF RenameControl, PointsOK, TypeOK, Progress, Upserts
  <2>2. \A j \in Ids : j # cur => users'[j] = users[j]
    BY <1>2, <1>6, <2>1 DEF RenameControl, SetName
  <2>3. users'[cur] = [name |-> snap.users[cur].name, note |-> seen.note, src |-> "control"]
    <3>1. CASE seen.name = snap.users[cur].name
      BY <1>6, <2>1, <3>1 DEF RenameControl, Row
    <3>2. CASE seen.name # snap.users[cur].name
      BY <1>2, <1>6, <2>1, <3>2 DEF RenameControl, SetName, Exists
    <3> QED
      BY <3>1, <3>2
  <2>4. ASSUME NEW j \in DOMAIN snap.users, j \notin todo, j # cur PROVE UserApplied(j)'
    <3>1. UserApplied(j)
      BY <2>1, <2>4 DEF Upserted, Progress, Upserts
    <3> QED
      BY <1>1, <1>2, <2>1, <2>2, <2>4, <3>1, StaysApplied
  <2> QED
    BY <1>1, <2>1, <2>3, <2>4 DEF Upserts, Upserted
<1> QED
  BY <1>3, <1>4, <1>5, <1>6 DEF Progress

(* The deletes.                                                            *)
LEMMA DeleteProgress ==
  ASSUME OwnershipInv, Progress,
         \/ UpsertsDone \/ DeleteControl \/ DeletesDone
         \/ \E i \in Ids : PruneOne(i) \/ ReadForDelete(i)
  PROVE  Progress'
<1> USE DEF OwnershipInv
<1>1. snap \in Snapshots /\ pc' \in {"prune", "delta", "delete", "rules"} /\ snap' = snap
  BY DEF TypeOK, UpsertsDone, DeleteControl, DeletesDone, PruneOne, ReadForDelete
<1>2. /\ DOMAIN snap.users \subseteq Ids /\ snap.delete \subseteq Ids
      /\ snap.kind \in {"full", "delta", "none"} /\ users \in [Ids -> Row \union {None}]
  BY <1>1, SnapFacts DEF TypeOK
<1>3. Upserts'
  BY <1>1 DEF Upserts
<1>4. Prunes' <=> Prunes
  BY <1>1 DEF Prunes
<1>5. CASE UpsertsDone
  <2>1. /\ UNCHANGED <<users, skipped>> /\ snap.kind # "none"
        /\ IF snap.kind = "full"
           THEN /\ pc' = "prune"
                /\ dels' = IF Prunes THEN {i \in Ids : IsControl(i)} \ DOMAIN snap.users ELSE {}
           ELSE pc' = "delta" /\ dels' = snap.delete
    BY <1>5 DEF UpsertsDone, db, PointsOK
  <2>2. ASSUME NEW i \in DOMAIN snap.users PROVE UserApplied(i)'
    <3>1. UserApplied(i)
      BY <1>5 DEF UpsertsDone, Progress, Upserts, Upserted
    <3> QED
      BY <1>1, <2>1, <3>1, StaysApplied
  <2>3. \A i \in Ids : IsControl(i)' <=> IsControl(i)
    BY <2>1 DEF IsControl, Exists
  <2>4. Deletes'
    BY <1>1, <1>2, <1>4, <2>1, <2>2, <2>3 DEF Deletes
  <2>5. RulesLeft'
    BY <2>1 DEF RulesLeft
  <2> QED
    BY <1>3, <2>4, <2>5 DEF Progress
<1>6. ASSUME NEW i \in Ids, PruneOne(i) PROVE Progress'
  <2>1. /\ pc = "prune" /\ pc' = "prune" /\ skipped' = skipped /\ dels' = dels \ {i} /\ i \in dels
        /\ users' = [users EXCEPT ![i] = None]
    BY <1>6 DEF PruneOne
  <2>2. ASSUME NEW j \in DOMAIN snap.users PROVE UserApplied(j)'
    <3>1. UserApplied(j) /\ j # i
      BY <2>1 DEF Progress, Deletes
    <3> QED
      BY <1>1, <1>2, <2>1, <3>1, StaysApplied
  <2>3. \A j \in Ids : IsControl(j)' => IsControl(j) /\ j # i
    BY <1>2, <2>1 DEF IsControl, Exists
  <2>4. Deletes'
    BY <1>1, <1>4, <2>1, <2>2, <2>3 DEF Progress, Deletes
  <2>5. RulesLeft'
    BY <2>1 DEF RulesLeft
  <2> QED
    BY <1>3, <2>4, <2>5 DEF Progress
<1>7. ASSUME NEW i \in Ids, ReadForDelete(i) PROVE Progress'
  <2>1. /\ pc = "delta" /\ UNCHANGED <<users, skipped>> /\ dels' = dels \ {i} /\ i \in dels
        /\ IF Exists(i) THEN pc' = "delete" /\ cur' = i /\ seen' = users[i] ELSE pc' = pc
    BY <1>7 DEF ReadForDelete, db
  <2>2. ASSUME NEW j \in DOMAIN snap.users \ snap.delete PROVE UserApplied(j)'
    <3>1. UserApplied(j)
      BY <2>1 DEF Progress, Deletes
    <3> QED
      BY <1>1, <2>1, <3>1, StaysApplied
  <2>3. \A j \in Ids : (IsControl(j)' <=> IsControl(j)) /\ (IsControl(j) => Exists(j))
    BY <2>1 DEF IsControl, Exists
  <2>4. i \in snap.delete /\ (Exists(i) /\ users[i].src = "local" => ~IsControl(i))
    BY <2>1 DEF Progress, Deletes, IsControl
  <2>5. Deletes'
    BY <1>1, <1>2, <2>1, <2>2, <2>3, <2>4 DEF Progress, Deletes
  <2>6. RulesLeft'
    BY <2>1 DEF RulesLeft
  <2> QED
    BY <1>3, <2>5, <2>6 DEF Progress
<1>8. CASE DeleteControl
  <2>1. PICK i \in Ids : i = cur
    BY <1>8 DEF DeleteControl, PointsOK
  <2>2. /\ pc = "delete" /\ pc' = "delta" /\ dels' = dels /\ i \in snap.delete
        /\ IF seen.src = "local" THEN users' = users /\ skipped' = skipped \union {i}
                                 ELSE users' = [users EXCEPT ![i] = None] /\ skipped' = skipped
    BY <1>8, <2>1 DEF DeleteControl, Progress, Deletes
  <2>3. ASSUME NEW j \in DOMAIN snap.users \ snap.delete PROVE UserApplied(j)'
    <3>1. UserApplied(j) /\ j # i
      BY <2>2 DEF Progress, Deletes
    <3> QED
      BY <1>1, <1>2, <2>2, <3>1, StaysApplied
  <2>4. \A j \in Ids : IsControl(j)' => IsControl(j) /\ j # i
    BY <1>2, <2>1, <2>2 DEF IsControl, Exists, Progress, Deletes
  <2>5. Deletes'
    BY <1>1, <1>2, <2>1, <2>2, <2>3, <2>4 DEF Progress, Deletes
  <2>6. RulesLeft'
    BY <2>2 DEF RulesLeft
  <2> QED
    BY <1>3, <2>5, <2>6 DEF Progress
<1>9. CASE DeletesDone
  <2>1. pc \in {"prune", "delta"} /\ dels = {} /\ pc' = "rules" /\ UNCHANGED <<users, skipped>>
    BY <1>9 DEF DeletesDone, db
  <2>2. UsersApplied
    BY <1>2, <2>1 DEF Progress, Deletes, UsersApplied
  <2>3. UsersApplied'
    BY <1>1, <1>4, <2>1, <2>2 DEF UsersApplied, UserApplied, IsControl, Exists
  <2> QED
    BY <1>3, <2>1, <2>3 DEF Progress, Deletes, RulesLeft
<1> QED
  BY <1>5, <1>6, <1>7, <1>8, <1>9

(* The rules, and the cursor after them.                                   *)
LEMMA RuleProgress ==
  ASSUME OwnershipInv, Progress,
         \/ ReadRules \/ RulesDone \/ ClearCursor
         \/ \E r \in Rules : RemoveRule(r) \/ AddRule(r)
  PROVE  Progress'
<1>1. /\ pc \in {"rules", "apply", "clear"} /\ pc' \in {"apply", "clear", "write"}
      /\ UNCHANGED <<users, skipped, snap>>
  BY DEF ReadRules, RulesDone, ClearCursor, RemoveRule, AddRule, db
<1>2. Prunes' <=> Prunes
  BY <1>1 DEF Prunes
<1>3. UsersApplied'
  <2>1. UsersApplied
    BY <1>1 DEF Progress, RulesLeft
  <2> QED
    BY <1>1, <1>2, <2>1 DEF UsersApplied, UserApplied, IsControl, Exists
<1>4. Upserts' /\ Deletes'
  BY <1>1 DEF Upserts, Deletes
<1>5. CASE ReadRules
  BY <1>1, <1>2, <1>3, <1>4, <1>5 DEF ReadRules, db, Progress, RulesLeft
<1>6. ASSUME NEW r \in Rules, RemoveRule(r) PROVE Progress'
  BY <1>1, <1>2, <1>3, <1>4, <1>6 DEF RemoveRule, Progress, RulesLeft
<1>7. ASSUME NEW r \in Rules, AddRule(r) PROVE Progress'
  BY <1>1, <1>2, <1>3, <1>4, <1>7 DEF AddRule, Progress, RulesLeft
<1>8. CASE RulesDone
  BY <1>1, <1>2, <1>3, <1>4, <1>8 DEF RulesDone, db, Progress, RulesLeft, RulesApplied
<1>9. CASE ClearCursor
  BY <1>1, <1>2, <1>3, <1>4, <1>9 DEF ClearCursor, Progress, RulesLeft, RulesApplied
<1> QED
  BY <1>5, <1>6, <1>7, <1>8, <1>9

(* A tick begins or is over.                                               *)
LEMMA TickProgress ==
  ASSUME OwnershipInv, Progress,
         \/ \E s \in Snapshots : Receive(s)
         \/ ApplySettings \/ WriteCursor \/ ReconcileFails \/ Crash
  PROVE  Progress'
<1>1. CASE pc' \in {"idle", "settings"}
  BY <1>1 DEF Progress, Upserts, Deletes, RulesLeft
<1>2. CASE ApplySettings
  <2>1. CASE snap.kind = "none"
    BY <1>2, <2>1 DEF ApplySettings, Progress, Upserts, Deletes, RulesLeft, UsersApplied
  <2>2. CASE snap.kind # "none"
    BY <1>2, <2>2 DEF ApplySettings, Progress, Upserts, Upserted, Deletes, RulesLeft
  <2> QED
    BY <2>1, <2>2
<1> QED
  BY <1>1, <1>2 DEF Receive, WriteCursor, ReconcileFails, Crash, TickOver

LEMMA ProgressStep == OwnershipInv /\ HoldsLocal /\ Progress /\ [Next]_vars => Progress'
<1> SUFFICES ASSUME OwnershipInv, HoldsLocal, Progress, [Next]_vars PROVE Progress'
  OBVIOUS
<1>1. CASE Poller
  BY <1>1, UpsertProgress, DeleteProgress, RuleProgress, TickProgress DEF Poller, Apply
<1>2. CASE Admin
  <2>1. UNCHANGED <<poller, rules>>
    BY <1>2 DEF Admin, AdminCreate, AdminPatch, AdminDelete, AdminRename, AdminNote, AdminErase,
                AdminGivesUp, db
  <2> QED
    BY <1>2, <2>1, AdminStep, ElsewhereProgress
<1>3. CASE Crash
  BY <1>3, TickProgress
<1>4. CASE UNCHANGED <<poller, db>>
  BY <1>4, ElsewhereProgress DEF db, IsControl, Exists
<1> QED
  BY <1>1, <1>2, <1>3, <1>4 DEF Next, TakePermit, vars

(* The server hears of a cursor only when what came with it is in the      *)
(* tables: every user and rule asked for, nothing that was to go           *)
(* (control.rs 1145-1178).  One admin request at a time; with two, one that *)
(* renames a user under the other's delete can undo what was applied.      *)
THEOREM CursorIsApplied ==
  ASSUME \A a, b \in Admins : a = b
  PROVE  Spec => []CursorMeansApplied
<1>1. Init => Progress
  BY DEF Init, Progress, Upserts, Deletes, RulesLeft
<1>2. OwnershipInv /\ HoldsLocal /\ [Next]_vars => HoldsLocal'
  BY HoldsStep
<1>3. Progress => CursorMeansApplied
  BY DEF Progress, RulesLeft, CursorMeansApplied
<1> QED
  BY Ownership, InitHolds, ProgressStep, <1>1, <1>2, <1>3, PTL DEF Spec

----------------------------------------------------------------------------
(* The control center.                                                     *)

LEMMA CCStep == CCNext => [Next]_vars
<1> SUFFICES ASSUME CCNext PROVE [Next]_vars
  OBVIOUS
<1>1. CASE Tick \/ TickGarbled
  <2>1. \E r : Ask(r)
    BY <1>1 DEF Tick, TickGarbled
  <2> QED
    BY <2>1 DEF Ask, Next, Poller
<1>2. CASE Collides \/ TickFails
  BY <1>2 DEF Collides, TickFails, Next, Poller
<1>3. CASE Step \/ Finish
  BY <1>3 DEF Step, Finish, Next, Poller, Apply
<1>4. CASE AdminAct
  <2>1. \/ \E i \in DOMAIN LocalUsers : AdminCreate(i, LocalUsers[i].name, LocalUsers[i].note)
        \/ \E a \in Admins, i \in Ids : AdminDelete(a, i) \/ AdminErase(a)
    BY <1>4 DEF AdminAct
  <2>2. ASSUME NEW i \in DOMAIN LocalUsers,
               AdminCreate(i, LocalUsers[i].name, LocalUsers[i].note)
        PROVE  Admin
    <3>1. PICK S \in SUBSET Ids : LocalUsers \in [S -> Want]
      BY CenterAssumption
    <3>2. i \in Ids /\ LocalUsers[i].name \in Names /\ LocalUsers[i].note \in Notes
      BY <3>1, <2>2 DEF Want
    <3> QED
      BY <2>2, <3>2 DEF Admin
  <2>3. ASSUME NEW a \in Admins, NEW i \in Ids, AdminDelete(a, i) \/ AdminErase(a)
        PROVE  Admin
    BY <2>3 DEF Admin
  <2> QED
    BY <2>1, <2>2, <2>3 DEF Next
<1>5. CASE CCCrash
  BY <1>5 DEF CCCrash, Next
<1>6. CASE \/ Advance \/ Truncate \/ Drain \/ PostReport \/ ReportFails
           \/ ReadStatus \/ PostStatus \/ StatusFails
  BY <1>6 DEF Advance, Truncate, Drain, PostReport, ReportFails, ReadStatus, PostStatus, StatusFails
<1> QED
  BY <1>1, <1>2, <1>3, <1>4, <1>5, <1>6 DEF CCNext

(* The composed system is an instance of the poller with one of its        *)
(* admissible servers.                                                     *)
THEOREM CenterIsAServer == CCSpec => Spec
<1>1. CCInit => Init
  BY DEF CCInit
<1>2. [CCNext /\ UNCHANGED scope]_ccvars => [Next]_vars
  BY CCStep DEF ccvars, vars
<1> QED
  BY <1>1, <1>2, PTL DEF CCSpec, Spec

(* ... so no response of the control center, and no loss of one, makes the *)
(* poller touch a local row.                                               *)
THEOREM CenterSparesLocal == CCSpec => PollerSparesLocal
  BY CenterIsAServer, PollerSpares

-----------------------------------------------------------------------------
(* The settings row and the sessions, of which the control center writes   *)
(* the former.  A token outlives its password only as a refused one:       *)
(* generations never go back, and a new password takes a new one.          *)

(* A hash and the generation it was read with, as row s stands.            *)
Vouched(s, h, g) == g \in Int /\ g <= s.gen /\ (g = s.gen => h = s.hash)

(* What makes OldTokensRefused inductive: a login under way vouches for    *)
(* the hash it compares the password with.                                 *)
Sessions ==
  /\ {"gen", "hash"} \subseteq DOMAIN row /\ row.gen \in Int
  /\ DOMAIN req = Reqs
  /\ \A t \in tokens : Vouched(row, t.pw, t.gen)
  /\ \A r \in Reqs : req[r].at = "login" => Vouched(row, req[r].hash, req[r].gen)

LEMMA SessionsInit == SettingsInit => Sessions
<1> SUFFICES ASSUME SettingsInit PROVE Sessions
  OBVIOUS
<1>1. {"gen", "hash"} \subseteq DOMAIN row /\ row.gen \in Int
  BY DEF SettingsInit, Seed
<1>2. \A r \in Reqs : req[r].at # "login"
  BY DEF SettingsInit, AtRest
<1> QED
  BY <1>1, <1>2 DEF SettingsInit, Sessions

(* A write leaves generation and hash, or takes a new generation.          *)
LEMMA WrittenGrows ==
  ASSUME NEW s, {"gen", "hash"} \subseteq DOMAIN s, s.gen \in Int, NEW p
  PROVE  LET w == Written(s, p) IN
         /\ DOMAIN w = DOMAIN s /\ w.gen \in Int
         /\ (w.gen = s.gen /\ w.hash = s.hash) \/ w.gen > s.gen
<1>1. Written(s, p).gen = IF "password" \notin DOMAIN p THEN s.gen ELSE s.gen + 1
  BY DEF Written, Columns
<1>2. "password" \notin DOMAIN p => Written(s, p).hash = s.hash
  BY DEF Written, Columns
<1>3. DOMAIN Written(s, p) = DOMAIN s
  BY DEF Written
<1> QED
  BY <1>1, <1>2, <1>3

(* Every step leaves the row's generation and hash, or takes a new one.    *)
LEMMA RowGrows ==
  ASSUME Sessions, [SettingsNext]_settingsVars
  PROVE  /\ {"gen", "hash"} \subseteq DOMAIN row' /\ row'.gen \in Int
         /\ (row'.gen = row.gen /\ row'.hash = row.hash) \/ row'.gen > row.gen
<1>1. CASE UNCHANGED row
  BY <1>1 DEF Sessions
<1>2. CASE \E p : row' = Written(row, p)
  BY <1>2, WrittenGrows DEF Sessions
<1>3. CASE row' = Seeded
  <2>1. row'.gen = row.gen /\ row'.hash = row.hash /\ DOMAIN row' = DOMAIN row
    BY <1>3 DEF Seeded, Sessions
  <2> QED
    BY <2>1 DEF Sessions
<1>4. UNCHANGED row \/ (\E p : row' = Written(row, p)) \/ row' = Seeded
  <2>1. CASE Boot
    BY <2>1 DEF Boot, Load, BootAdmin, BootDrivers
  <2>2. CASE Stop \/ \E t \in tokens : Expire(t)
    BY <2>2 DEF Stop, Expire
  <2>3. CASE \E s \in scenario.snapshots : Snapshot(s)
    BY <2>3 DEF Snapshot
  <2>4. ASSUME NEW r \in Reqs, Client(r) PROVE UNCHANGED row
    BY <2>4 DEF Client, LoginRead, ArriveReload, ArrivePatch, Arrive
  <2>5. ASSUME NEW r \in Reqs, Handle(r) PROVE UNCHANGED row \/ \E p : row' = Written(row, p)
    <3>1. CASE PatchCommit(r)
      BY <3>1 DEF PatchCommit
    <3> QED
      BY <2>5, <3>1 DEF Handle, LoginIssue, PatchRead, PatchRefused, PatchGet, ReloadRead,
                        ApplySs, ApplySubnet, ApplyFails, ApplyHost, GiveUp
  <2> QED
    BY <2>1, <2>2, <2>3, <2>4, <2>5 DEF SettingsNext, settingsVars
<1> QED
  BY <1>1, <1>2, <1>3, <1>4

(* A login in the new state was there before, or has just read the row.    *)
LEMMA LoginsRead ==
  ASSUME Sessions, [SettingsNext]_settingsVars
  PROVE  /\ DOMAIN req' = Reqs
         /\ \A q \in Reqs : req'[q].at = "login" =>
              \/ req'[q] = req[q]
              \/ req'[q].hash = row.hash /\ req'[q].gen = row.gen /\ UNCHANGED row
<1> USE DEF Sessions
<1>1. CASE UNCHANGED req
  BY <1>1
<1>2. ASSUME NEW r \in Reqs, NEW q, req' = [req EXCEPT ![r] = q], q.at # "login"
      PROVE  DOMAIN req' = Reqs /\ \A x \in Reqs : req'[x].at = "login" => req'[x] = req[x]
  BY <1>2
<1>3. CASE Boot \/ (\E t \in tokens : Expire(t)) \/ (\E s \in scenario.snapshots : Snapshot(s))
  BY <1>1, <1>3 DEF Boot, Load, BootAdmin, BootDrivers, Expire, Snapshot
<1>4. CASE Stop
  BY <1>4 DEF Stop, AtRest
<1>5. ASSUME NEW r \in Reqs, NEW pw \in Passwords, LoginRead(r, pw)
      PROVE  /\ DOMAIN req' = Reqs
             /\ \A q \in Reqs : req'[q].at = "login" =>
                  \/ req'[q] = req[q]
                  \/ req'[q].hash = row.hash /\ req'[q].gen = row.gen /\ UNCHANGED row
  BY <1>5 DEF LoginRead
<1>6. ASSUME NEW r \in Reqs, NEW t \in tokens,
             ArriveReload(r, t) \/ \E p \in scenario.patches : ArrivePatch(r, t, p)
      PROVE  \E q : req' = [req EXCEPT ![r] = q] /\ q.at # "login"
  <2>1. CASE ArriveReload(r, t)
    <3> WITNESS [at |-> "reload"]
    <3> QED
      BY <2>1 DEF ArriveReload, Arrive
  <2>2. ASSUME NEW p \in scenario.patches, ArrivePatch(r, t, p)
        PROVE  \E q : req' = [req EXCEPT ![r] = q] /\ q.at # "login"
    <3> WITNESS [at |-> "auth", patch |-> p]
    <3> QED
      BY <2>2 DEF ArrivePatch, Arrive
  <2> QED
    BY <1>6, <2>1, <2>2
<1>7. ASSUME NEW r \in Reqs, Handle(r)
      PROVE  \E q : req' = [req EXCEPT ![r] = q] /\ q.at # "login"
  <2>1. AtRest.at # "login"
    BY DEF AtRest
  <2>2. CASE LoginIssue(r) \/ PatchRefused(r) \/ ApplyFails(r) \/ ApplyHost(r) \/ GiveUp(r)
    BY <2>1, <2>2 DEF LoginIssue, PatchRefused, ApplyFails, ApplyHost, GiveUp, Done
  <2>3. CASE PatchRead(r)
    <3> WITNESS [at |-> "read", patch |-> req[r].patch, before |-> row]
    <3> QED
      BY <2>3 DEF PatchRead
  <2>4. CASE PatchCommit(r)
    <3> WITNESS [at |-> "committed", before |-> req[r].before]
    <3> QED
      BY <2>4 DEF PatchCommit
  <2>5. CASE PatchGet(r)
    <3> WITNESS [at |-> "ss", before |-> req[r].before, after |-> row]
    <3> QED
      BY <2>5 DEF PatchGet
  <2>6. CASE ReloadRead(r)
    <3> WITNESS [at |-> "ss", before |-> Unset, after |-> row]
    <3> QED
      BY <2>6 DEF ReloadRead
  <2>7. CASE ApplySs(r)
    <3> WITNESS [req[r] EXCEPT !.at = "subnet"]
    <3> QED
      BY <2>7 DEF ApplySs
  <2>8. CASE ApplySubnet(r)
    <3> WITNESS [req[r] EXCEPT !.at = "host"]
    <3> QED
      BY <2>8 DEF ApplySubnet
  <2> QED
    BY <1>7, <2>2, <2>3, <2>4, <2>5, <2>6, <2>7, <2>8 DEF Handle
<1> QED
  BY <1>1, <1>2, <1>3, <1>4, <1>5, <1>6, <1>7 DEF SettingsNext, Client, settingsVars

(* A token in the new state was there before, or a login that compared     *)
(* equal has issued it.                                                    *)
LEMMA TokensIssued ==
  ASSUME [SettingsNext]_settingsVars
  PROVE  \A t \in tokens' :
           \/ t \in tokens
           \/ \E r \in Reqs : /\ req[r].at = "login" /\ t.pw = req[r].hash /\ t.gen = req[r].gen
                              /\ UNCHANGED row
<1>1. CASE UNCHANGED tokens
  BY <1>1
<1>2. ASSUME NEW r \in Reqs, LoginIssue(r)
      PROVE  \A t \in tokens' :
               \/ t \in tokens
               \/ req[r].at = "login" /\ t.pw = req[r].hash /\ t.gen = req[r].gen /\ UNCHANGED row
  BY <1>2 DEF LoginIssue, Matches, Token
<1>3. CASE \E t \in tokens : Expire(t)
  BY <1>3 DEF Expire
<1>4. CASE Boot \/ Stop \/ \E s \in scenario.snapshots : Snapshot(s)
  BY <1>1, <1>4 DEF Boot, Load, BootAdmin, BootDrivers, Stop, Snapshot
<1>5. ASSUME NEW r \in Reqs, Client(r) PROVE UNCHANGED tokens
  BY <1>5 DEF Client, LoginRead, ArriveReload, ArrivePatch, Arrive
<1>6. ASSUME NEW r \in Reqs, Handle(r), ~LoginIssue(r) PROVE UNCHANGED tokens
  BY <1>6 DEF Handle, PatchRead, PatchRefused, PatchCommit, PatchGet, ReloadRead,
              ApplySs, ApplySubnet, ApplyFails, ApplyHost, GiveUp
<1> QED
  BY <1>1, <1>2, <1>3, <1>4, <1>5, <1>6 DEF SettingsNext, settingsVars

LEMMA SessionsStep == Sessions /\ [SettingsNext]_settingsVars => Sessions'
<1> SUFFICES ASSUME Sessions, [SettingsNext]_settingsVars PROVE Sessions'
  OBVIOUS
<1>1. ASSUME NEW h, NEW g, Vouched(row, h, g) PROVE Vouched(row', h, g)
  BY <1>1, RowGrows DEF Vouched, Sessions
<1>2. ASSUME NEW t \in tokens' PROVE Vouched(row', t.pw, t.gen)
  <2>1. CASE t \in tokens
    BY <1>1, <2>1 DEF Sessions
  <2>2. CASE \E r \in Reqs : req[r].at = "login" /\ t.pw = req[r].hash /\ t.gen = req[r].gen
    <3>1. PICK r \in Reqs : req[r].at = "login" /\ t.pw = req[r].hash /\ t.gen = req[r].gen
      BY <2>2
    <3>2. Vouched(row, t.pw, t.gen)
      BY <3>1 DEF Sessions
    <3> QED
      BY <1>1, <3>2
  <2> QED
    BY <2>1, <2>2, TokensIssued
<1>3. ASSUME NEW r \in Reqs, req'[r].at = "login" PROVE Vouched(row', req'[r].hash, req'[r].gen)
  <2>1. CASE req'[r] = req[r]
    <3>1. Vouched(row, req[r].hash, req[r].gen)
      BY <1>3, <2>1 DEF Sessions
    <3>2. Vouched(row, req'[r].hash, req'[r].gen)
      BY <2>1, <3>1
    <3> QED
      BY <1>1, <3>2
  <2>2. CASE req'[r].hash = row.hash /\ req'[r].gen = row.gen /\ UNCHANGED row
    BY <2>2 DEF Vouched, Sessions
  <2> QED
    BY <1>3, <2>1, <2>2, LoginsRead
<1> QED
  BY <1>2, <1>3, RowGrows, LoginsRead DEF Sessions

(* Whatever the order of logins, rotations, boots and crashes, and however *)
(* long the tokens live: one that require_auth still accepts was issued    *)
(* for the password of the row.                                            *)
THEOREM RotationEndsSessions == SettingsSpec => []OldTokensRefused
<1>1. Sessions => OldTokensRefused
  BY DEF Sessions, OldTokensRefused, Vouched, Accepts
<1> QED
  BY <1>1, SessionsInit, SessionsStep, PTL DEF SettingsSpec

----------------------------------------------------------------------------
(* Types.  Drivers that are up have a configuration of their own.          *)

Conf == [ssPort : SsPorts, ssHost : Domains \union {Bind}, subnet : ValuesOf["subnet"],
         host : ValuesOf["domain"], wgPort : WgPorts]

ReqOK(q) ==
  /\ q.at \in {"idle", "login", "auth", "reload", "read", "committed", "ss", "subnet", "host"}
  /\ q.at = "login" => q.hash \in Passwords /\ q.gen \in Nat
  /\ q.at \in {"auth", "read"} => q.patch \in scenario.patches
  /\ q.at \in {"read", "committed"} => q.before \in Rows
  /\ q.at \in {"ss", "subnet", "host"} =>
       DOMAIN q = {"at", "before", "after"} /\ q.after \in Rows /\ q.before \in Rows \union {Unset}
  /\ q.at # "idle" => phase = "up"

IInv ==
  /\ SettingsTypeOK /\ scenario \in Scenarios
  /\ DOMAIN req = Reqs /\ \A r \in Reqs : ReqOK(req[r])
  /\ phase = "up" => live \in Conf

RowFields == {"domain", "subnet", "ssPort", "wgPort", "hash", "gen"}

LEMMA RowParts ==
  ASSUME NEW w, DOMAIN w = RowFields, w = [c \in RowFields |-> w[c]],
         w["domain"] \in ValuesOf["domain"], w["subnet"] \in ValuesOf["subnet"],
         w["ssPort"] \in SsPorts, w["wgPort"] \in WgPorts,
         w["hash"] \in ValuesOf["password"], w["gen"] \in Nat
  PROVE  w \in Rows
BY DEF Rows, RowFields

LEMMA WrittenRow ==
  ASSUME NEW s \in Rows, NEW p, \A c \in DOMAIN p \intersect Columns : p[c] \in ValuesOf[c],
         "password" \in DOMAIN p => p["password"] \in ValuesOf["password"]
  PROVE  Written(s, p) \in Rows
<1> DEFINE w == Written(s, p)
<1>1. DOMAIN s = RowFields
  BY DEF Rows, RowFields
<1>2. DOMAIN w = RowFields /\ w = [c \in RowFields |-> w[c]]
  BY <1>1 DEF Written
<1>3. /\ w["domain"] \in ValuesOf["domain"] /\ w["subnet"] \in ValuesOf["subnet"]
      /\ w["ssPort"] \in SsPorts /\ w["wgPort"] \in WgPorts
  BY <1>1 DEF Written, Rows, Columns, RowFields, ValuesOf
<1>4. w["hash"] \in ValuesOf["password"] /\ w["gen"] \in Nat
  BY <1>1 DEF Written, Rows, Columns, RowFields
<1> HIDE DEF w
<1> QED
  BY <1>2, <1>3, <1>4, RowParts DEF w

LEMMA ScenarioParts ==
  ASSUME scenario \in Scenarios
  PROVE  /\ \A f \in scenario.files \union scenario.overrides : Partial(f, Keys)
         /\ \A p \in scenario.patches : Partial(p, Columns \union {"password"})
         /\ \A c \in scenario.snapshots : Partial(c, Columns)
<1>1. ASSUME NEW f \in scenario.files \union scenario.overrides PROVE Partial(f, Keys)
  BY <1>1, SettingsAssumption
<1>2. ASSUME NEW p \in scenario.patches PROVE Partial(p, Columns \union {"password"})
  BY <1>2, SettingsAssumption DEF Partial
<1>3. ASSUME NEW c \in scenario.snapshots PROVE Partial(c, Columns)
  BY <1>3, SettingsAssumption
<1> QED
  BY <1>1, <1>2, <1>3

LEMMA InitIInv == SettingsInit => IInv
<1> SUFFICES ASSUME SettingsInit PROVE IInv
  OBVIOUS
<1>1. row \in Rows
  BY SettingsAssumption DEF SettingsInit, Seed, Rows, ValuesOf
<1>2. DOMAIN config = Keys /\ Partial(config, Keys)
  BY SettingsAssumption DEF SettingsInit
<1>3. DOMAIN req = Reqs /\ \A r \in Reqs : ReqOK(req[r]) /\ req[r].at = "idle"
  BY DEF SettingsInit, AtRest, ReqOK
<1> QED
  BY <1>1, <1>2, <1>3 DEF SettingsInit, IInv, SettingsTypeOK

(* What TypeOK says of the requests is what ReqOK says of each.            *)
LEMMA Assemble ==
  ASSUME row' \in Rows, edited' \subseteq Columns, phase' \in {"down", "loaded", "admin", "up"},
         DOMAIN config' = Keys, Partial(config', Keys), live' = Off \/ live' \in Conf,
         tokens' \subseteq [pw : Passwords, gen : Nat], alone' \subseteq Reqs, disturbed' \in BOOLEAN,
         scenario' \in Scenarios, DOMAIN req' = Reqs, \A r \in Reqs : ReqOK(req[r])',
         phase' = "up" => live' \in Conf
  PROVE  IInv'
BY DEF IInv, SettingsTypeOK, ReqOK, Conf

LEMMA Parts ==
  ASSUME IInv
  PROVE  /\ row \in Rows /\ edited \subseteq Columns /\ phase \in {"down", "loaded", "admin", "up"}
         /\ DOMAIN config = Keys /\ Partial(config, Keys) /\ (live = Off \/ live \in Conf)
         /\ tokens \subseteq [pw : Passwords, gen : Nat] /\ alone \subseteq Reqs /\ disturbed \in BOOLEAN
         /\ scenario \in Scenarios /\ DOMAIN req = Reqs /\ \A r \in Reqs : ReqOK(req[r])
         /\ phase = "up" => live \in Conf
BY DEF IInv, SettingsTypeOK, Conf

LEMMA BootTypes ==
  ASSUME IInv, UNCHANGED scenario, Boot \/ Stop
  PROVE  IInv'
<1>1. CASE Load
  <2>1. PICK f \in scenario.files, o \in scenario.overrides : config' = Loaded(f, o)
    BY <1>1 DEF Load
  <2>2. Partial(f, Keys) /\ Partial(o, Keys) /\ DOMAIN Defaults = Keys /\ Partial(Defaults, Keys)
    BY <2>1, Parts, ScenarioParts, SettingsAssumption
  <2>3. DOMAIN config' = Keys /\ Partial(config', Keys)
    BY <2>1, <2>2 DEF Loaded, Partial
  <2>4. \A r \in Reqs : ReqOK(req[r])'
    BY <1>1, Parts DEF Load, ReqOK
  <2> QED
    BY <1>1, <2>3, <2>4, Parts, Assemble DEF Load, overlap
<1>2. CASE BootAdmin
  <2>1. config.password \in ValuesOf["password"]
    BY Parts DEF Partial, Keys
  <2>2. Written(row, [password |-> config.password]) \in Rows
    BY <2>1, Parts, WrittenRow DEF Columns
  <2>3. \A r \in Reqs : ReqOK(req[r])'
    BY <1>2, Parts DEF BootAdmin, ReqOK
  <2> QED
    BY <1>2, <2>2, <2>3, Parts, Assemble DEF BootAdmin, overlap
<1>3. CASE BootDrivers
  <2>1. config["domain"] \in ValuesOf["domain"] /\ config["subnet"] \in ValuesOf["subnet"]
    BY Parts DEF Partial, Keys, Columns
  <2>2. DOMAIN row = RowFields
    BY Parts DEF Rows, RowFields
  <2>3. DOMAIN Seeded = RowFields /\ Seeded = [c \in RowFields |-> Seeded[c]]
    BY <2>2 DEF Seeded
  <2>4. /\ Seeded["domain"] \in ValuesOf["domain"] /\ Seeded["subnet"] \in ValuesOf["subnet"]
        /\ Seeded["ssPort"] \in SsPorts /\ Seeded["wgPort"] \in WgPorts
        /\ Seeded["hash"] \in ValuesOf["password"] /\ Seeded["gen"] \in Nat
    BY <2>1, <2>2, Parts DEF Seeded, Rows, RowFields
  <2>5. Seeded \in Rows
    BY <2>3, <2>4, RowParts
  <2>6. live' \in Conf
    BY <1>3, <2>4 DEF BootDrivers, Conf, ValuesOf
  <2>7. \A r \in Reqs : ReqOK(req[r])'
    BY <1>3, Parts DEF BootDrivers, ReqOK
  <2> QED
    BY <1>3, <2>5, <2>6, <2>7, Parts, Assemble DEF BootDrivers
<1>4. CASE Stop
  <2>1. DOMAIN req' = Reqs /\ \A r \in Reqs : ReqOK(req[r])'
    BY <1>4 DEF Stop, AtRest, ReqOK
  <2> QED
    BY <1>4, <2>1, Parts, Assemble DEF Stop
<1> QED
  BY <1>1, <1>2, <1>3, <1>4 DEF Boot

LEMMA SnapshotTypes ==
  ASSUME IInv, UNCHANGED scenario, NEW s \in scenario.snapshots, Snapshot(s)
  PROVE  IInv'
<1> DEFINE d == {c \in DOMAIN s : s[c] # row[c]}
           p == [c \in d |-> s[c]]
<1>1. Partial(s, Columns)
  BY Parts, ScenarioParts
<1>2. d \subseteq Columns /\ \A c \in DOMAIN p \intersect Columns : p[c] \in ValuesOf[c]
  BY <1>1 DEF Partial
<1>3. "password" \notin DOMAIN p
  BY <1>2 DEF Columns
<1>4. row' = Written(row, p) /\ edited' = edited \union d
  BY DEF Snapshot
<1>5. row' \in Rows
  BY <1>2, <1>3, <1>4, Parts, WrittenRow
<1>6. \A r \in Reqs : ReqOK(req[r])'
  BY Parts DEF Snapshot, ReqOK, process
<1> QED
  BY <1>2, <1>4, <1>5, <1>6, Parts, Assemble DEF Snapshot, process

LEMMA ClientTypes ==
  ASSUME IInv, UNCHANGED scenario, NEW r \in Reqs, Client(r)
  PROVE  IInv'
<1>1. UNCHANGED <<row, edited, phase, config, live, tokens>> /\ phase = "up"
  BY DEF Client, LoginRead, ArriveReload, ArrivePatch, Arrive, MayWrite, process
<1>2. PICK q : req' = [req EXCEPT ![r] = q] /\ ReqOK(q)
  <2>1. CASE \E pw \in Passwords : LoginRead(r, pw)
    <3>1. PICK pw \in Passwords : LoginRead(r, pw)
      BY <2>1
    <3>2. row.hash \in Passwords /\ row.gen \in Nat
      BY <3>1, Parts DEF LoginRead, Rows, ValuesOf
    <3> QED
      BY <1>1, <3>1, <3>2 DEF LoginRead, ReqOK
  <2>2. CASE \E t \in tokens : ArriveReload(r, t)
    BY <1>1, <2>2 DEF ArriveReload, Arrive, ReqOK
  <2>3. CASE \E t \in tokens, p \in scenario.patches : ArrivePatch(r, t, p)
    BY <1>1, <2>3 DEF ArrivePatch, Arrive, ReqOK
  <2> QED
    BY <2>1, <2>2, <2>3 DEF Client
<1>3. DOMAIN req' = Reqs /\ \A x \in Reqs : ReqOK(req[x])'
  BY <1>1, <1>2, Parts DEF ReqOK
<1>4. alone' \subseteq Reqs /\ disturbed' \in BOOLEAN
  BY Parts DEF Client, LoginRead, ArriveReload, ArrivePatch, Arrive, overlap
<1> QED
  BY <1>1, <1>3, <1>4, Parts, Assemble

LEMMA HandleTypes ==
  ASSUME IInv, UNCHANGED scenario, NEW r \in Reqs, Handle(r)
  PROVE  IInv'
<1> DEFINE q == req[r]
<1>1. UNCHANGED <<phase, config>>
  BY DEF Handle, LoginIssue, PatchRead, PatchRefused, PatchCommit, PatchGet, ReloadRead, ApplySs, ApplySubnet,
         ApplyFails, ApplyHost, GiveUp, process
<1>2. ReqOK(q) /\ q.at # "idle" /\ phase = "up" /\ live \in Conf
  BY Parts DEF Handle, LoginIssue, PatchRead, PatchRefused, PatchCommit, PatchGet, ReloadRead, ApplySs,
               ApplySubnet, ApplyFails, ApplyHost, GiveUp, ReqOK
<1>3. row' \in Rows /\ edited' \subseteq Columns
  <2>1. CASE PatchCommit(r)
    <3> DEFINE p == [c \in DOMAIN q.patch \ {"wgPort"} |-> q.patch[c]]
    <3>1. Partial(q.patch, Columns \union {"password"})
      BY <1>2, <2>1, Parts, ScenarioParts DEF PatchCommit, ReqOK
    <3>2. \A c \in DOMAIN p : p[c] \in ValuesOf[c]
      BY <3>1 DEF Partial
    <3>3. row' = Written(row, p) /\ edited' = edited \union (DOMAIN p \intersect Columns)
      BY <2>1 DEF PatchCommit
    <3> HIDE DEF p
    <3> QED
      BY <3>2, <3>3, Parts, WrittenRow
  <2>2. CASE ~PatchCommit(r)
    BY <2>2, Parts DEF Handle, LoginIssue, PatchRead, PatchRefused, PatchGet, ReloadRead, ApplySs, ApplySubnet,
                       ApplyFails, ApplyHost, GiveUp
  <2> QED
    BY <2>1, <2>2
<1>4. live' \in Conf
  <2>1. CASE q.at \in {"ss", "subnet", "host"}
    <3>1. After(r) \in Rows
      BY <1>2, <2>1 DEF ReqOK, After
    <3>2. Listened(r) \in Conf /\ Resized(r) \in Conf /\ [live EXCEPT !.host = After(r).domain] \in Conf
      BY <1>2, <3>1 DEF Listened, Resized, Conf, Rows, ValuesOf
    <3> QED
      BY <1>2, <2>1, <3>2 DEF Handle, LoginIssue, PatchRead, PatchRefused, PatchCommit, PatchGet, ReloadRead,
                              ApplySs, ApplySubnet, ApplyFails, ApplyHost, GiveUp
  <2>2. CASE q.at \notin {"ss", "subnet", "host"}
    BY <1>2, <2>2 DEF Handle, LoginIssue, PatchRead, PatchRefused, PatchCommit, PatchGet, ReloadRead,
                      ApplySs, ApplySubnet, ApplyFails, ApplyHost, GiveUp
  <2> QED
    BY <2>1, <2>2
<1>5. tokens' \subseteq [pw : Passwords, gen : Nat]
  <2>1. CASE LoginIssue(r)
    BY <1>2, <2>1, Parts DEF LoginIssue, ReqOK, Matches, Token
  <2>2. CASE ~LoginIssue(r)
    BY <2>2, Parts DEF Handle, PatchRead, PatchRefused, PatchCommit, PatchGet, ReloadRead, ApplySs, ApplySubnet,
                       ApplyFails, ApplyHost, GiveUp
  <2> QED
    BY <2>1, <2>2
<1>6. alone' \subseteq Reqs /\ disturbed' \in BOOLEAN
  BY Parts DEF Handle, LoginIssue, PatchRead, PatchRefused, PatchCommit, PatchGet, ReloadRead, ApplySs, ApplySubnet,
               ApplyFails, ApplyHost, GiveUp, overlap
<1>7. \E x : req' = [req EXCEPT ![r] = x] /\ ReqOK(x)
  <2>1. CASE LoginIssue(r) \/ PatchRefused(r) \/ ApplyFails(r) \/ ApplyHost(r) \/ GiveUp(r)
    BY <1>2, <2>1 DEF LoginIssue, PatchRefused, ApplyFails, ApplyHost, GiveUp, Done, AtRest, ReqOK
  <2>2. CASE PatchRead(r)
    <3>1. req' = [req EXCEPT ![r] = [at |-> "read", patch |-> q.patch, before |-> row]]
      BY <2>2 DEF PatchRead
    <3> QED
      BY <1>2, <2>2, <3>1, Parts DEF PatchRead, ReqOK
  <2>3. CASE PatchCommit(r)
    <3>1. req' = [req EXCEPT ![r] = [at |-> "committed", before |-> q.before]]
      BY <2>3 DEF PatchCommit
    <3> QED
      BY <1>2, <2>3, <3>1 DEF PatchCommit, ReqOK
  <2>4. CASE PatchGet(r)
    <3>1. req' = [req EXCEPT ![r] = [at |-> "ss", before |-> q.before, after |-> row]]
      BY <2>4 DEF PatchGet
    <3> QED
      BY <1>2, <2>4, <3>1, Parts DEF PatchGet, ReqOK
  <2>5. CASE ReloadRead(r)
    BY <1>2, <2>5, Parts DEF ReloadRead, ReqOK
  <2>6. CASE ApplySs(r)
    <3>1. req' = [req EXCEPT ![r] = [q EXCEPT !.at = "subnet"]]
      BY <2>6 DEF ApplySs
    <3> QED
      BY <1>2, <2>6, <3>1 DEF ApplySs, ReqOK
  <2>7. CASE ApplySubnet(r)
    <3>1. req' = [req EXCEPT ![r] = [q EXCEPT !.at = "host"]]
      BY <2>7 DEF ApplySubnet
    <3> QED
      BY <1>2, <2>7, <3>1 DEF ApplySubnet, ReqOK
  <2> QED
    BY <2>1, <2>2, <2>3, <2>4, <2>5, <2>6, <2>7 DEF Handle
<1>8. DOMAIN req' = Reqs /\ \A x \in Reqs : ReqOK(req[x])'
  BY <1>1, <1>7, Parts DEF ReqOK
<1> QED
  BY <1>1, <1>3, <1>4, <1>5, <1>6, <1>8, Parts, Assemble

LEMMA StepIInv == IInv /\ [SettingsNext]_settingsVars => IInv'
<1> SUFFICES ASSUME IInv, [SettingsNext]_settingsVars PROVE IInv'
  OBVIOUS
<1>1. CASE UNCHANGED settingsVars
  BY <1>1 DEF settingsVars, IInv, SettingsTypeOK, ReqOK
<1>2. ASSUME UNCHANGED scenario, NEW t \in tokens, Expire(t) PROVE IInv'
  BY <1>2, Parts, Assemble DEF Expire, process, overlap, ReqOK
<1> QED
  BY <1>1, <1>2, BootTypes, SnapshotTypes, ClientTypes, HandleTypes DEF SettingsNext

(* Whatever is in the files, the patches and the snapshots, every field of *)
(* the row, of the drivers and of a request keeps its type, and no request *)
(* is under way while the process is not up.                               *)
THEOREM SettingsTypes == SettingsSpec => []SettingsTypeOK
<1>1. IInv => SettingsTypeOK
  BY DEF IInv
<1> QED
  BY <1>1, InitIInv, StepIInv, PTL DEF SettingsSpec

----------------------------------------------------------------------------
(* The drivers and the row.  A request carries the difference: what it     *)
(* has read is what the drivers run with, or what the row has become.      *)

(* The drivers' listener, and everything they run with, as s has it.       *)
Listens(s)   == live.ssPort = s.ssPort /\ (s.domain # Unset => live.ssHost = s.domain)
RunsWith(s)  == Listens(s) /\ live.subnet = s.subnet /\ live.host = s.domain

(* How far apply_runtime has come: what is done is as the row has it, and  *)
(* a patch finds the rest as it was before, so the difference is enough.   *)
Applying(q) ==
  /\ q.at \in {"ss", "subnet", "host"} => q.after = row
  /\ q.at = "ss" => q.before = Unset \/ RunsWith(q.before)
  /\ q.at \in {"subnet", "host"} => Listens(row)
  /\ q.at = "subnet" => q.before = Unset \/ live.subnet = q.before.subnet
  /\ q.at = "host" => live.subnet = row.subnet
  /\ q.at \in {"subnet", "host"} => q.before = Unset \/ live.host = q.before.domain

(* The steps before it: the row is committed after it has been read.  A    *)
(* reload finds nothing to change.                                         *)
Reading(q) ==
  /\ q.at \in {"auth", "reload", "read"} => RunsWith(row)
  /\ q.at = "read" => q.before = row
  /\ q.at = "committed" => RunsWith(q.before)
  /\ q.at \in {"ss", "subnet", "host"} /\ q.before = Unset => RunsWith(row)

(* What nothing has overlapped is the only request; so is any while        *)
(* nothing is disturbed.                                                   *)
Sole ==
  /\ \A r \in alone, x \in Reqs : Handling(req[x]) => x = r
  /\ disturbed \/ \A x, y \in Reqs : Handling(req[x]) /\ Handling(req[y]) => x = y

(* An undisturbed request leaves the drivers with the row; so does a       *)
(* reload that nothing overlaps, whatever it found.                        *)
Undisturbed ==
  phase = "up" /\ ~disturbed =>
    /\ ~Busy => RunsWith(row)
    /\ \A r \in Reqs : Handling(req[r]) => Reading(req[r]) /\ Applying(req[r])
Reloading ==
  \A r \in alone : req[r].at \in {"ss", "subnet", "host"} /\ req[r].before = Unset => Applying(req[r])

Carried == Sole /\ Undisturbed /\ Reloading

Stages == {"ss", "subnet", "host"}

LEMMA Alike == RunsWith(row) => Agrees
BY DEF RunsWith, Listens, Agrees

LEMMA InitCarried == SettingsInit => Carried
BY DEF SettingsInit, AtRest, Carried, Sole, Undisturbed, Reloading, Handling

(* A step that no request under way has a part in.                         *)
LEMMA Aside ==
  ASSUME Carried, alone \subseteq Reqs, UNCHANGED <<row, live, phase, alone, disturbed>>,
         \A x \in Reqs : (Handling(req[x]) \/ Handling(req'[x])) => req'[x] = req[x]
  PROVE  Carried'
<1>1. \A x \in Reqs : Handling(req'[x]) <=> Handling(req[x])
  OBVIOUS
<1>2. Sole'
  BY <1>1 DEF Carried, Sole
<1>3. Undisturbed'
  BY <1>1 DEF Carried, Undisturbed, Busy, RunsWith, Listens, Reading, Applying
<1>4. Reloading'
  BY DEF Carried, Reloading, Applying, Listens, RunsWith, Handling
<1> QED
  BY <1>2, <1>3, <1>4 DEF Carried

(* A step of a request r that is under way, which leaves it as q.          *)
LEMMA Onward ==
  ASSUME Carried, DOMAIN req = Reqs, alone \subseteq Reqs, NEW r \in Reqs, Handling(req[r]), NEW q, req' = [req EXCEPT ![r] = q],
         UNCHANGED <<phase, alone>>,
         disturbed' \/ ~disturbed \/ r \in alone,
         disturbed' \/ (Handling(q) /\ Reading(q)' /\ Applying(q)') \/ (~Handling(q) /\ RunsWith(row)'),
         r \in alone /\ q.at \in Stages /\ q.before = Unset => Applying(q)'
  PROVE  Carried'
<1>1. req'[r] = q /\ \A x \in Reqs : x # r => req'[x] = req[x]
  OBVIOUS
<1>2. ASSUME NEW x \in Reqs, x # r, x \in alone \/ r \in alone \/ ~disturbed PROVE ~Handling(req[x])
  BY <1>2 DEF Carried, Sole
<1>3. Sole'
  BY <1>1, <1>2 DEF Carried, Sole
<1>4. Undisturbed'
  BY <1>1, <1>2 DEF Undisturbed, Busy
<1>5. ASSUME NEW x \in alone, req'[x].at \in Stages, req'[x].before = Unset PROVE Applying(req[x])'
  <2>1. x = r
    BY <1>1, <1>2, <1>5 DEF Handling, Stages
  <2> QED
    BY <1>1, <1>5, <2>1
<1>6. Reloading'
  BY <1>5 DEF Reloading, Stages
<1> QED
  BY <1>3, <1>4, <1>6 DEF Carried

LEMMA BootCarried ==
  ASSUME IInv, Carried, Boot \/ Stop
  PROVE  Carried'
<1>1. CASE Stop
  BY <1>1 DEF Stop, AtRest, Carried, Sole, Undisturbed, Reloading, Handling
<1>2. CASE Boot
  <2>1. UNCHANGED <<req, alone>> /\ \A x \in Reqs : req[x].at = "idle"
    BY <1>2, Parts DEF Boot, Load, BootAdmin, BootDrivers, overlap, ReqOK
  <2>2. Sole' /\ Reloading'
    BY <2>1, Parts DEF Sole, Reloading, Handling
  <2>3. CASE BootDrivers
    <3>1. RunsWith(row)'
      BY <2>3 DEF BootDrivers, RunsWith, Listens
    <3> QED
      BY <2>1, <2>2, <3>1 DEF Carried, Undisturbed, Handling
  <2>4. CASE Load \/ BootAdmin
    BY <2>2, <2>4 DEF Load, BootAdmin, Carried, Undisturbed
  <2> QED
    BY <1>2, <2>3, <2>4 DEF Boot
<1> QED
  BY <1>1, <1>2

LEMMA ClientCarried ==
  ASSUME IInv, Carried, NEW r \in Reqs, Client(r)
  PROVE  Carried'
<1>1. CASE \E pw \in Passwords : LoginRead(r, pw)
  <2>1. UNCHANGED <<row, live, phase, alone, disturbed>>
    BY <1>1 DEF LoginRead, process, overlap
  <2>2. ~Handling(req[r]) /\ ~Handling(req'[r]) /\ \A x \in Reqs : x # r => req'[x] = req[x]
    BY <1>1, Parts DEF LoginRead, Handling, AtRest
  <2> QED
    BY <2>1, <2>2, Parts, Aside
<1>2. ASSUME NEW t, NEW q, q.at \in {"auth", "reload"}, Arrive(r, t, q) PROVE Carried'
  <2>1. /\ req[r] = AtRest /\ req' = [req EXCEPT ![r] = q] /\ UNCHANGED <<row, live, phase>>
        /\ disturbed' = (disturbed \/ Busy) /\ alone' = IF Busy THEN {} ELSE {r}
    BY <1>2 DEF Arrive, process
  <2>2. req'[r] = q /\ \A x \in Reqs : x # r => req'[x] = req[x]
    BY <2>1, Parts
  <2>3. Sole'
    BY <2>1, <2>2 DEF Sole, Busy
  <2>4. Reloading'
    BY <1>2, <2>1, <2>2 DEF Reloading
  <2>5. ASSUME phase = "up", ~disturbed, ~Busy PROVE Undisturbed'
    <3>1. RunsWith(row)'
      BY <2>1, <2>5 DEF Carried, Undisturbed, RunsWith, Listens
    <3>2. Reading(q)' /\ Applying(q)'
      <4>1. q.at \notin {"read", "committed", "ss", "subnet", "host"}
        BY <1>2
      <4> QED
        BY <3>1, <4>1 DEF Reading, Applying
    <3>3. \A x \in Reqs : Handling(req'[x]) => req'[x] = q
      BY <2>2, <2>5 DEF Busy
    <3> QED
      BY <3>1, <3>2, <3>3 DEF Undisturbed
  <2>6. Undisturbed'
    BY <2>1, <2>5 DEF Undisturbed
  <2> QED
    BY <2>3, <2>4, <2>6 DEF Carried
<1>3. CASE \E t \in tokens : ArriveReload(r, t)
  BY <1>2, <1>3 DEF ArriveReload
<1>4. CASE \E t \in tokens, p \in scenario.patches : ArrivePatch(r, t, p)
  BY <1>2, <1>4 DEF ArrivePatch
<1> QED
  BY <1>1, <1>3, <1>4 DEF Client

(* Up to the commit nothing is applied.                                    *)
LEMMA ReadCarried ==
  ASSUME IInv, Carried, NEW r \in Reqs,
         PatchRead(r) \/ PatchRefused(r) \/ PatchCommit(r) \/ PatchGet(r) \/ ReloadRead(r)
  PROVE  Carried'
<1> PICK was : was = req[r]
  OBVIOUS
<1> PICK old : old = row
  OBVIOUS
<1>1. Handling(was) /\ phase = "up" /\ UNCHANGED <<live, phase, alone, disturbed>>
  BY Parts DEF PatchRead, PatchRefused, PatchCommit, PatchGet, ReloadRead, process, overlap, Handling, ReqOK
<1>2. disturbed \/ (Reading(was) /\ Applying(was))
  BY <1>1 DEF Carried, Undisturbed
<1>3. CASE PatchRead(r)
  <2>1. PICK q : q = [at |-> "read", patch |-> was.patch, before |-> old]
    OBVIOUS
  <2>2. req' = [req EXCEPT ![r] = q] /\ was.at = "auth" /\ UNCHANGED row
    BY <1>3, <2>1 DEF PatchRead
  <2>3. q.at = "read" /\ q.before = old /\ Handling(q) /\ q.at \notin Stages
    BY <2>1 DEF Handling, Stages
  <2>4. disturbed \/ (Reading(q)' /\ Applying(q)')
    BY <1>1, <1>2, <2>2, <2>3 DEF Reading, Applying, RunsWith, Listens
  <2> QED
    BY <1>1, <2>2, <2>3, <2>4, Parts, Onward
<1>4. CASE PatchRefused(r)
  <2>1. PICK q : q = AtRest
    OBVIOUS
  <2>2. req' = [req EXCEPT ![r] = q] /\ was.at = "auth" /\ UNCHANGED row
    BY <1>4, <2>1 DEF PatchRefused, Done
  <2>3. ~Handling(q) /\ q.at \notin Stages
    BY <2>1 DEF Handling, Stages, AtRest
  <2>4. disturbed \/ RunsWith(row)'
    BY <1>1, <1>2, <2>2 DEF Reading, RunsWith, Listens
  <2> QED
    BY <1>1, <2>2, <2>3, <2>4, Parts, Onward
<1>5. CASE PatchCommit(r)
  <2>1. PICK q : q = [at |-> "committed", before |-> was.before]
    OBVIOUS
  <2>2. req' = [req EXCEPT ![r] = q] /\ was.at = "read"
    BY <1>5, <2>1 DEF PatchCommit
  <2>3. q.at = "committed" /\ q.before = was.before /\ Handling(q) /\ q.at \notin Stages
    BY <2>1 DEF Handling, Stages
  <2>4. disturbed \/ RunsWith(was.before)'
    BY <1>1, <1>2, <2>2 DEF Reading, RunsWith, Listens
  <2>5. disturbed \/ (Reading(q)' /\ Applying(q)')
    BY <2>3, <2>4 DEF Reading, Applying
  <2> QED
    BY <1>1, <2>2, <2>3, <2>5, Parts, Onward
<1>6. CASE PatchGet(r)
  <2>1. PICK q : q = [at |-> "ss", before |-> was.before, after |-> old]
    OBVIOUS
  <2>2. req' = [req EXCEPT ![r] = q] /\ was.at = "committed" /\ UNCHANGED row
    BY <1>6, <2>1 DEF PatchGet
  <2>3. q.at = "ss" /\ q.before = was.before /\ q.after = old /\ Handling(q)
    BY <2>1 DEF Handling
  <2>4. q.before # Unset /\ (disturbed \/ RunsWith(q.before)')
    BY <1>1, <1>2, <2>2, <2>3, Parts, SettingsAssumption DEF Reading, RunsWith, Listens, ReqOK
  <2>5. disturbed \/ (Reading(q)' /\ Applying(q)')
    BY <2>2, <2>3, <2>4 DEF Reading, Applying
  <2>6. q.before = Unset => Applying(q)'
    BY <2>2, <2>3 DEF Applying
  <2> QED
    BY <1>1, <2>2, <2>3, <2>5, <2>6, Parts, Onward
<1>7. CASE ReloadRead(r)
  <2>1. PICK q : q = [at |-> "ss", before |-> Unset, after |-> old]
    OBVIOUS
  <2>2. req' = [req EXCEPT ![r] = q] /\ was.at = "reload" /\ UNCHANGED row
    BY <1>7, <2>1 DEF ReloadRead
  <2>3. q.at = "ss" /\ q.before = Unset /\ q.after = old /\ Handling(q)
    BY <2>1 DEF Handling
  <2>4. Applying(q)' /\ (disturbed \/ Reading(q)')
    BY <1>1, <1>2, <2>2, <2>3 DEF Reading, Applying, RunsWith, Listens
  <2> QED
    BY <1>1, <2>2, <2>3, <2>4, Parts, Onward
<1> QED
  BY <1>3, <1>4, <1>5, <1>6, <1>7

(* apply_runtime brings the drivers to the row, part by part.              *)
LEMMA ApplyCarried ==
  ASSUME IInv, Carried, NEW r \in Reqs, ApplySs(r) \/ ApplySubnet(r) \/ ApplyFails(r) \/ ApplyHost(r)
  PROVE  Carried'
<1> PICK was : was = req[r]
  OBVIOUS
<1>1. /\ was.at \in Stages /\ Handling(was) /\ phase = "up" /\ live \in Conf
      /\ DOMAIN was = {"at", "before", "after"} /\ UNCHANGED <<row, phase, alone>>
  BY Parts DEF ApplySs, ApplySubnet, ApplyFails, ApplyHost, process, overlap, Handling, ReqOK, Stages
<1>2. /\ (disturbed /\ ~(r \in alone /\ was.before = Unset)) \/ Applying(was)
      /\ disturbed \/ Reading(was)
  BY <1>1 DEF Carried, Undisturbed, Reloading, Stages
<1>3. CASE ApplySs(r)
  <2>1. PICK q : q = [was EXCEPT !.at = "subnet"]
    OBVIOUS
  <2>2. req' = [req EXCEPT ![r] = q] /\ was.at = "ss" /\ live' = Listened(r) /\ UNCHANGED disturbed
    BY <1>3, <2>1 DEF ApplySs, overlap
  <2>3. q.at = "subnet" /\ q.before = was.before /\ q.after = was.after /\ Handling(q)
    BY <1>1, <2>1 DEF Handling
  <2>4. ASSUME Applying(was) PROVE Applying(q)' /\ (Reading(was) => Reading(q)')
    <3>1. was.after = row /\ (was.before = Unset \/ RunsWith(was.before))
      BY <2>2, <2>4 DEF Applying
    <3>2. live'.subnet = live.subnet /\ live'.host = live.host
      BY <1>1, <2>2 DEF Listened, Conf
    <3>3. live'.ssPort = row.ssPort /\ (row.domain # Unset => live'.ssHost = row.domain)
      BY <1>1, <2>2, <3>1 DEF Listened, Differs, After, Conf, RunsWith, Listens
    <3>4. Listens(row)'
      BY <1>1, <3>3 DEF Listens
    <3>5. q.before = Unset \/ (live'.subnet = q.before.subnet /\ live'.host = q.before.domain)
      BY <2>3, <3>1, <3>2 DEF RunsWith
    <3>6. Applying(q)'
      BY <1>1, <2>3, <3>1, <3>4, <3>5 DEF Applying
    <3>7. ASSUME Reading(was), q.before = Unset PROVE RunsWith(row)'
      <4>1. live.subnet = row.subnet /\ live.host = row.domain
        BY <2>2, <2>3, <3>7 DEF Reading, RunsWith
      <4> QED
        BY <1>1, <3>2, <3>4, <4>1 DEF RunsWith
    <3>8. ASSUME Reading(was) PROVE Reading(q)'
      BY <2>3, <3>7, <3>8 DEF Reading
    <3> QED
      BY <3>6, <3>8
  <2> QED
    BY <1>1, <1>2, <2>2, <2>3, <2>4, Parts, Onward
<1>4. CASE ApplySubnet(r)
  <2>1. PICK q : q = [was EXCEPT !.at = "host"]
    OBVIOUS
  <2>2. req' = [req EXCEPT ![r] = q] /\ was.at = "subnet" /\ live' = Resized(r) /\ UNCHANGED disturbed
    BY <1>4, <2>1 DEF ApplySubnet, overlap
  <2>3. q.at = "host" /\ q.before = was.before /\ q.after = was.after /\ Handling(q)
    BY <1>1, <2>1 DEF Handling
  <2>4. ASSUME Applying(was) PROVE Applying(q)' /\ (Reading(was) => Reading(q)')
    <3>1. /\ was.after = row /\ Listens(row)
          /\ was.before = Unset \/ (live.subnet = was.before.subnet /\ live.host = was.before.domain)
      BY <2>2, <2>4 DEF Applying
    <3>2. live'.ssPort = live.ssPort /\ live'.ssHost = live.ssHost /\ live'.host = live.host
      BY <1>1, <2>2 DEF Resized, Conf
    <3>3. live'.subnet = row.subnet
      BY <1>1, <2>2, <3>1 DEF Resized, Differs, After, Conf
    <3>4. Listens(row)'
      BY <1>1, <3>1, <3>2 DEF Listens
    <3>5. Applying(q)'
      BY <1>1, <2>3, <3>1, <3>2, <3>3, <3>4 DEF Applying
    <3>6. ASSUME Reading(was), q.before = Unset PROVE RunsWith(row)'
      <4>1. live.host = row.domain
        BY <2>2, <2>3, <3>6 DEF Reading, RunsWith
      <4> QED
        BY <1>1, <3>2, <3>3, <3>4, <4>1 DEF RunsWith
    <3>7. ASSUME Reading(was) PROVE Reading(q)'
      BY <2>3, <3>6, <3>7 DEF Reading
    <3> QED
      BY <3>5, <3>7
  <2> QED
    BY <1>1, <1>2, <2>2, <2>3, <2>4, Parts, Onward
<1>5. CASE ApplyFails(r) \/ ApplyHost(r)
  <2>1. PICK q : q = AtRest
    OBVIOUS
  <2>2. req' = [req EXCEPT ![r] = q]
    BY <1>5, <2>1 DEF ApplyFails, ApplyHost, Done
  <2>3. ~Handling(q) /\ q.at \notin Stages
    BY <2>1 DEF Handling, Stages, AtRest
  <2>4. CASE ApplyFails(r)
    <3>1. disturbed'
      BY <2>4 DEF ApplyFails
    <3> QED
      BY <1>1, <2>2, <2>3, <3>1, Parts, Onward
  <2>5. CASE ApplyHost(r)
    <3>1. /\ was.at = "host" /\ disturbed' = (disturbed /\ ~(was.before = Unset /\ r \in alone))
          /\ live' = IF Differs(r, "domain") THEN [live EXCEPT !.host = After(r).domain] ELSE live
      BY <2>5 DEF ApplyHost
    <3>2. ASSUME ~disturbed' PROVE RunsWith(row)'
      <4>1. Applying(was)
        BY <1>2, <3>1, <3>2
      <4>2. /\ was.after = row /\ Listens(row) /\ live.subnet = row.subnet
            /\ was.before = Unset \/ live.host = was.before.domain
        BY <3>1, <4>1 DEF Applying
      <4>3. live'.ssPort = live.ssPort /\ live'.ssHost = live.ssHost /\ live'.subnet = live.subnet
        BY <1>1, <3>1 DEF Conf
      <4>4. live'.host = row.domain
        BY <1>1, <3>1, <4>2 DEF Differs, After, Conf
      <4> QED
        BY <1>1, <4>2, <4>3, <4>4 DEF RunsWith, Listens
    <3>3. disturbed' \/ ~disturbed \/ r \in alone
      BY <3>1, Parts
    <3> QED
      BY <1>1, <2>2, <2>3, <3>2, <3>3, Parts, Onward
  <2> QED
    BY <1>5, <2>4, <2>5
<1> QED
  BY <1>3, <1>4, <1>5

(* A request that ends early: what it has not brought to the drivers is    *)
(* either nothing, or a patch's difference, and that disturbs.             *)
LEMMA GiveUpCarried ==
  ASSUME IInv, Carried, NEW r \in Reqs, GiveUp(r)
  PROVE  Carried'
<1> PICK was : was = req[r]
  OBVIOUS
<1> PICK q : q = AtRest
  OBVIOUS
<1>1. /\ req' = [req EXCEPT ![r] = q] /\ ~Handling(q) /\ q.at \notin Stages
      /\ disturbed' = (disturbed \/ Unapplied(was)) /\ UNCHANGED <<row, live, phase, alone>>
      /\ was.at # "idle" /\ phase = "up"
  BY Parts DEF GiveUp, Done, Handling, AtRest, Stages, process, ReqOK
<1>2. CASE was.at = "login"
  <2>1. ~Unapplied(was)
    BY <1>2 DEF Unapplied, Ahead
  <2>2. UNCHANGED disturbed
    BY <1>1, <2>1, Parts
  <2>3. ~Handling(req[r]) /\ ~Handling(req'[r]) /\ \A x \in Reqs : x # r => req'[x] = req[x]
    BY <1>1, <1>2, Parts DEF Handling
  <2> QED
    BY <1>1, <2>2, <2>3, Parts, Aside
<1>3. CASE was.at # "login"
  <2>1. Handling(was)
    BY <1>1, <1>3 DEF Handling
  <2>2. ASSUME ~disturbed, ~Unapplied(was) PROVE RunsWith(row)'
    <3>1. Reading(was) /\ Applying(was)
      BY <1>1, <2>1, <2>2 DEF Carried, Undisturbed
    <3>2. was.at \in {"auth", "reload", "read", "committed", "ss", "subnet", "host"}
      BY <1>1, <1>3, Parts DEF ReqOK
    <3>3. CASE was.at \in {"auth", "reload", "read"} \/ (was.at \in Stages /\ was.before = Unset)
      BY <1>1, <3>1, <3>3 DEF Reading, RunsWith, Listens, Stages
    <3>4. CASE was.at = "committed"
      <4>1. was.before.ssPort = row.ssPort /\ was.before.domain = row.domain /\ was.before.subnet = row.subnet
        BY <2>2, <3>4, Parts, SettingsAssumption DEF Unapplied, Ahead, ReqOK
      <4> QED
        BY <1>1, <3>1, <3>4, <4>1 DEF Reading, RunsWith, Listens
    <3>5. CASE was.at = "ss" /\ was.before # Unset
      <4>1. /\ was.before.ssPort = was.after.ssPort /\ was.before.domain = was.after.domain
            /\ was.before.subnet = was.after.subnet
        BY <2>2, <3>5 DEF Unapplied, Ahead
      <4> QED
        BY <1>1, <3>1, <3>5, <4>1 DEF Applying, RunsWith, Listens
    <3>6. CASE was.at = "subnet" /\ was.before # Unset
      <4>1. was.before.domain = was.after.domain /\ was.before.subnet = was.after.subnet
        BY <2>2, <3>6 DEF Unapplied, Ahead
      <4> QED
        BY <1>1, <3>1, <3>6, <4>1 DEF Applying, RunsWith, Listens
    <3>7. CASE was.at = "host" /\ was.before # Unset
      <4>1. was.before.domain = was.after.domain
        BY <2>2, <3>7 DEF Unapplied, Ahead
      <4> QED
        BY <1>1, <3>1, <3>7, <4>1 DEF Applying, RunsWith, Listens
    <3> QED
      BY <3>2, <3>3, <3>4, <3>5, <3>6, <3>7 DEF Stages
  <2>3. (disturbed' \/ ~disturbed) /\ (disturbed' \/ RunsWith(row)')
    BY <1>1, <2>2
  <2> QED
    BY <1>1, <2>1, <2>3, Parts, Onward
<1> QED
  BY <1>2, <1>3

LEMMA StepCarried == IInv /\ Carried /\ [SettingsNext]_settingsVars => Carried'
<1> SUFFICES ASSUME IInv, Carried, [SettingsNext]_settingsVars PROVE Carried'
  OBVIOUS
<1>1. CASE UNCHANGED settingsVars
  BY <1>1, Parts, Aside DEF settingsVars
<1>2. ASSUME NEW t \in tokens, Expire(t) PROVE Carried'
  BY <1>2, Parts, Aside DEF Expire, process, overlap
<1>3. ASSUME NEW s \in scenario.snapshots, Snapshot(s) PROVE Carried'
  BY <1>3 DEF Snapshot, Carried, Sole, Undisturbed, Reloading
<1>4. ASSUME NEW r \in Reqs, LoginIssue(r) PROVE Carried'
  <2>1. ~Handling(req[r]) /\ ~Handling(req'[r]) /\ \A x \in Reqs : x # r => req'[x] = req[x]
    BY <1>4, Parts DEF LoginIssue, Handling, AtRest
  <2> QED
    BY <1>4, <2>1, Parts, Aside DEF LoginIssue, process, overlap
<1> QED
  BY <1>1, <1>2, <1>3, <1>4, BootCarried, ClientCarried, ReadCarried, ApplyCarried, GiveUpCarried
  DEF SettingsNext, Handle

(* Whatever overlaps, fails, is dropped, crashes or comes from the control *)
(* center: a patch on undisturbed drivers, and a reload that nothing       *)
(* overlaps on any drivers, leave them running with what the row says; a   *)
(* request that gives up disturbs them only when it leaves a committed     *)
(* change behind.                                                          *)
THEOREM ReloadReasserts == SettingsSpec => []SettledMeansLive
<1>1. Carried => SettledMeansLive
  BY Alike DEF Carried, Undisturbed, SettledMeansLive, Busy
<1> QED
  BY <1>1, InitIInv, StepIInv, InitCarried, StepCarried, PTL DEF SettingsSpec
=============================================================================
