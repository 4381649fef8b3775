----------------------- MODULE InteractionStoreProofs -----------------------
(***************************************************************************)
(* The types of the table of interactions, and what holds of it when       *)
(* requests come one at a time: rows agree with the moderator's last       *)
(* decision, and the reactions to a picture have one content.  Both rest   *)
(* on what a request carries from its reads to its writes.                 *)
(*                                                                         *)
(* Then, with any number of requests at once, the table keeps the ledger's *)
(* promise where nobody agrees with anybody else.  The argument is the     *)
(* fate of a duplicate: as long as a login has one to delete, either the   *)
(* person still has the reaction in a row that no login will delete        *)
(* (HasTwin), or a deletion has named it, or it was posted after the       *)
(* visitor's reactions had moved.                                          *)
(***************************************************************************)
EXTENDS InteractionStore, TLAPS

(* A toggled interaction was saved before. *)
TypeInv ==
    /\ TypeOK
    /\ \A p \in Procs : proc[p].op = "toggle" => proc[p].id \in 1..lastId

(* With one request at a time, no other is begun while one is worked on. *)
OneAtATime ==
    scene.serial => \A p, q \in Procs : proc[p].op # "idle" /\ proc[q].op # "idle" => p = q

(* The tag, the rows and a request r agree with the moderator's decision v,  *)
(* where the tag is blocked (b) and its row in AllTag is t.                 *)
TagAgrees(v, b, t) ==
    /\ v = "block" => b
    /\ v = "approve" => t = "approved"
RowsAgree(v, table) ==
    \A i \in DOMAIN table :
        /\ v = "block" /\ Screened => ~table[i].approved
        /\ v = "approve" /\ ~scene.shared => table[i].approved
RequestAgrees(r, v, b, t) ==
    /\ r.op = "save" =>
           /\ Screened => v # "block"
           /\ v = "approve" /\ ~scene.shared => r.row.approved
    /\ r.op = "decide" =>
           /\ r.verdict = "block" => ~r.approved
           /\ r.verdict = "approve" => r.approved
           /\ TagAgrees(r.verdict, b, t)

(* The tag agrees with the last decision, unless the next is under way. *)
VerdictInv ==
    scene.serial =>
        /\ (\A p \in Procs : proc[p].op # "decide") => TagAgrees(verdict, blocked, tag)
        /\ \A p \in Procs : RequestAgrees(proc[p], verdict, blocked, tag)
        /\ RowsAgree(verdict, rows)

(* The row that is about to be saved has the content of those there are. *)
OneContent(table) == \A i, j \in DOMAIN table : table[i].content = table[j].content
SameContent(r, table) ==
    /\ r.op # "toggle"
    /\ r.op = "save" => \A i \in DOMAIN table : table[i].content = r.row.content
PictureInv ==
    scene.serial /\ scene.kind = "pictures" =>
        /\ OneContent(rows)
        /\ \A p \in Procs : SameContent(proc[p], rows)

SerialInv == TypeInv /\ OneAtATime /\ VerdictInv /\ PictureInv

-----------------------------------------------------------------------------
(* Requests                                                                 *)

(* What the fields of a request are, by its kind. *)
LEMMA RequestFields ==
    ASSUME NEW r \in Request
    PROVE  /\ r.op \in {"idle", "save", "tag", "dedupe", "drop", "toggle", "decide"}
           /\ r.op = "idle" <=> r = Idle
           /\ r.op = "save" => r.row \in Row /\ r.isNew \in BOOLEAN
           /\ r.op = "tag" => r.approved \in BOOLEAN
           /\ r.op = "dedupe" => r.visitor \in Visitors /\ r.dups \in SUBSET Ids
           /\ r.op = "drop" => r.visitor \in Visitors
           /\ r.op = "toggle" => r.id \in Ids /\ r.row \in Row
           /\ r.op = "decide" => r.approved \in BOOLEAN /\ r.verdict \in {"block", "approve", "open"}
<1>1. CASE r = Idle
  BY <1>1 DEF Idle
<1>2. CASE r \in [op : {"save"}, row : Row, isNew : BOOLEAN]
  BY <1>2 DEF Idle
<1>3. CASE r \in [op : {"tag"}, approved : BOOLEAN]
  BY <1>3 DEF Idle
<1>4. CASE r \in [op : {"dedupe"}, visitor : Visitors, dups : SUBSET Ids]
  BY <1>4 DEF Idle
<1>5. CASE r \in [op : {"drop"}, visitor : Visitors]
  BY <1>5 DEF Idle
<1>6. CASE r \in [op : {"toggle"}, id : Ids, row : Row]
  BY <1>6 DEF Idle
<1>7. CASE r \in [op : {"decide"}, approved : BOOLEAN, verdict : {"block", "approve", "open"}]
  BY <1>7 DEF Idle
<1>8. QED
  BY <1>1, <1>2, <1>3, <1>4, <1>5, <1>6, <1>7 DEF Request

(* A step in which one request goes on, or ends, and no id is lost. *)
LEMMA GoTypes ==
    ASSUME TypeInv, NEW p \in Procs, NEW request \in Request, Go(p, request),
           request.op = "toggle" => request.id \in 1..lastId,
           lastId' \in lastId..MaxRows
    PROVE  /\ proc' \in [Procs -> Request]
           /\ \A q \in Procs : proc'[q].op = "toggle" => proc'[q].id \in 1..lastId'
           /\ proc'[p] = request
           /\ \A q \in Procs : q # p => proc'[q] = proc[q]
<1>1. proc \in [Procs -> Request] /\ lastId \in Nat
  BY StoreAssumption DEF TypeInv, TypeOK
<1>2. /\ proc' \in [Procs -> Request] /\ proc'[p] = request
      /\ \A q \in Procs : q # p => proc'[q] = proc[q]
  BY <1>1 DEF Go
<1>3. 1..lastId \subseteq 1..lastId'
  BY <1>1, StoreAssumption
<1>4. ASSUME NEW q \in Procs, proc'[q].op = "toggle" PROVE proc'[q].id \in 1..lastId'
  BY <1>2, <1>3, <1>4 DEF TypeInv
<1>5. QED
  BY <1>2, <1>4

(* A process without a request is idle. *)
LEMMA IdleTypes == Idle \in Request /\ Idle.op = "idle"
BY DEF Request, Idle

(* What a new reaction's approval may be. *)
LEMMA ApproveValues == ApproveOnCreate \subseteq BOOLEAN
BY DEF ApproveOnCreate

(* The other group changes no more than its own row. *)
LEMMA OtherGroupFrame ==
    ASSUME OtherGroup
    PROVE  /\ UNCHANGED <<scene, rows, lastId, live, blocked, tag, verdict, proc, withdrawn,
                         moved, late>>
           /\ foreign' \in TagStates /\ scene.shared
BY DEF OtherGroup, ghosts, TagStates

(* Deleting takes rows away and changes none. *)
LEMMA WithoutRows ==
    ASSUME NEW S
    PROVE  /\ DOMAIN Without(S) \subseteq DOMAIN rows
           /\ \A i \in DOMAIN Without(S) : Without(S)[i] = rows[i]
BY DEF Without

-----------------------------------------------------------------------------
(* Types                                                                    *)

(* No row, no request. *)
LEMMA TypeStart == Init => TypeInv
<1> SUFFICES ASSUME Init PROVE TypeInv
  OBVIOUS
<1>1. \A p \in Procs : proc[p] = Idle
  BY DEF Init
<1>2. proc \in [Procs -> Request]
  BY IdleTypes DEF Init
<1>3. DOMAIN rows = {} /\ lastId \in 0..MaxRows
  BY StoreAssumption DEF Init
<1>4. TypeOK
  BY <1>2, <1>3 DEF Init, TypeOK, TagStates
<1>5. QED
  BY <1>1, <1>4, IdleTypes DEF TypeInv

(* createInteraction *)
LEMMA BeginCreateTypes ==
    ASSUME TypeInv, NEW p \in Procs, NEW v \in Visitors, NEW as \in {"temp", "person"},
           NEW c \in Contents, NEW parent \in 0..MaxRows, BeginCreate(p, v, as, c, parent)
    PROVE  TypeInv'
<1> DEFINE row(node, approved) == [visitor |-> v, as |-> as, content |-> node,
                                   parent |-> parent, approved |-> approved]
           req(node, approved) ==
               [op |-> "save", row |-> row(node, approved), isNew |-> KnownTags = {}]
<1>1. PICK node \in ContentNode(c), approved \in ApproveOnCreate : Go(p, req(node, approved))
  BY DEF BeginCreate
<1>2. node \in Contents
  BY DEF ContentNode, TypeInv, TypeOK, Row
<1>3. approved \in BOOLEAN
  BY ApproveValues
<1>4. row(node, approved) \in Row
  BY <1>2, <1>3 DEF Row
<1>5. req(node, approved) \in Request /\ req(node, approved).op # "toggle"
  BY <1>4 DEF Request
<1>6. UNCHANGED <<scene, rows, lastId, live, tagVars, ghosts>>
  BY DEF BeginCreate
<1>7. lastId' \in lastId..MaxRows
  BY <1>6, StoreAssumption DEF TypeInv, TypeOK
<1> HIDE DEF req
<1>8. /\ proc' \in [Procs -> Request]
      /\ \A q \in Procs : proc'[q].op = "toggle" => proc'[q].id \in 1..lastId'
  BY <1>1, <1>5, <1>7, GoTypes
<1>9. QED
  BY <1>6, <1>8 DEF TypeInv, TypeOK, tagVars, ghosts

(* createInteraction: the save takes the next id. *)
LEMMA SaveTypes ==
    ASSUME TypeInv, NEW p \in Procs, Save(p)
    PROVE  TypeInv'
<1> DEFINE r == proc[p].row
           saved == Allowed(r, DOMAIN rows) /\ lastId < MaxRows
           next == IF proc[p].isNew THEN [op |-> "tag", approved |-> r.approved] ELSE Idle
<1>1. proc[p] \in Request /\ r \in Row /\ lastId \in Nat
  BY RequestFields, StoreAssumption DEF Save, TypeInv, TypeOK
<1>2. UNCHANGED <<scene, live, tagVars, withdrawn, moved>>
  BY DEF Save
<1>3. next \in Request /\ next.op # "toggle"
  BY <1>1, IdleTypes DEF Request, Row
<1>4. CASE saved
  <2>1. /\ lastId' = lastId + 1 /\ Go(p, next)
        /\ rows' = [i \in DOMAIN rows \cup {lastId + 1} |-> IF i = lastId + 1 THEN r ELSE rows[i]]
        /\ late' \subseteq late \cup {lastId + 1}
    BY <1>4 DEF Save
  <2>2. lastId' \in lastId..MaxRows /\ lastId' \in 0..MaxRows /\ lastId + 1 \in Ids
    BY <1>1, <1>4, <2>1, StoreAssumption DEF Ids
  <2>3. DOMAIN rows' \subseteq 1..lastId' /\ \A i \in DOMAIN rows' : rows'[i] \in Row
    BY <1>1, <2>1 DEF TypeInv, TypeOK
  <2>4. late' \subseteq Ids
    BY <2>1, <2>2 DEF TypeInv, TypeOK
  <2> HIDE DEF next
  <2>5. /\ proc' \in [Procs -> Request]
        /\ \A q \in Procs : proc'[q].op = "toggle" => proc'[q].id \in 1..lastId'
    BY <1>3, <2>1, <2>2, GoTypes
  <2>6. QED
    BY <1>2, <2>2, <2>3, <2>4, <2>5 DEF TypeInv, TypeOK, tagVars
<1>5. CASE ~saved
  <2>1. Go(p, Idle) /\ UNCHANGED <<rows, lastId, late>>
    BY <1>5 DEF Save
  <2>2. lastId' \in lastId..MaxRows
    BY <2>1, StoreAssumption DEF TypeInv, TypeOK
  <2>3. /\ proc' \in [Procs -> Request]
        /\ \A q \in Procs : proc'[q].op = "toggle" => proc'[q].id \in 1..lastId'
    BY <2>1, <2>2, IdleTypes, GoTypes
  <2>4. QED
    BY <1>2, <2>1, <2>3 DEF TypeInv, TypeOK, tagVars
<1>6. QED
  BY <1>4, <1>5

(* A step that leaves the types of the tables as they are. *)
LEMMA TypesKept ==
    ASSUME TypeInv, NEW p \in Procs, NEW request \in Request, Go(p, request),
           request.op = "toggle" => request.id \in 1..lastId,
           scene' = scene, lastId' = lastId, late' = late,
           DOMAIN rows' \subseteq DOMAIN rows, \A i \in DOMAIN rows' : rows'[i] \in Row,
           live' \subseteq live, moved' \subseteq Visitors,
           blocked' \in BOOLEAN, tag' \in TagStates, foreign' = foreign,
           withdrawn' = withdrawn, verdict' \in {"block", "approve", "open"}
    PROVE  TypeInv'
<1>1. lastId' \in lastId..MaxRows
  BY StoreAssumption DEF TypeInv, TypeOK
<1>2. /\ proc' \in [Procs -> Request]
      /\ \A q \in Procs : proc'[q].op = "toggle" => proc'[q].id \in 1..lastId'
  BY <1>1, GoTypes
<1>3. QED
  BY <1>2 DEF TypeInv, TypeOK

(* createInteraction: the AllTag row that follows the save. *)
LEMMA CreateTagTypes ==
    ASSUME TypeInv, NEW p \in Procs, CreateTag(p)
    PROVE  TypeInv'
<1>1. tag' \in TagStates
  BY DEF CreateTag, TypeInv, TypeOK, TagStates
<1>2. Go(p, Idle) /\ UNCHANGED <<scene, rows, lastId, live, blocked, foreign, verdict, ghosts>>
  BY DEF CreateTag
<1>3. QED
  BY <1>1, <1>2, IdleTypes, TypesKept DEF ghosts, TypeInv, TypeOK

(* deleteInteraction *)
LEMMA DeleteTypes ==
    ASSUME TypeInv, NEW p \in Procs, NEW i \in DOMAIN rows, Delete(p, i)
    PROVE  TypeInv'
<1>1. /\ rows' = Without({i})
      /\ withdrawn' = withdrawn \cup {EntryOf(rows[j]) : j \in Cascade({i})}
      /\ UNCHANGED <<scene, lastId, live, tagVars, proc, moved, late>>
  BY DEF Delete
<1>2. DOMAIN rows' \subseteq DOMAIN rows /\ \A j \in DOMAIN rows' : rows'[j] = rows[j]
  BY <1>1, WithoutRows
<1>3. withdrawn' \subseteq Visitors \X Contents
  <2>1. \A j \in Cascade({i}) : EntryOf(rows[j]) \in Visitors \X Contents
    BY DEF Cascade, EntryOf, TypeInv, TypeOK, Row
  <2>2. QED
    BY <1>1, <2>1 DEF TypeInv, TypeOK
<1>4. QED
  BY <1>1, <1>2, <1>3 DEF TypeInv, TypeOK, tagVars

(* convertUser *)
LEMMA LoginTypes ==
    ASSUME TypeInv, NEW p \in Procs,
           \/ \E v \in Visitors : BeginLogin(p, v)
           \/ \E i \in Ids : DropDuplicate(p, i)
           \/ MoveRows(p)
           \/ DropUser(p)
    PROVE  TypeInv'
<1>1. proc[p] \in Request /\ DOMAIN rows \subseteq Ids
  BY StoreAssumption DEF TypeInv, TypeOK, Ids
<1>2. ASSUME NEW v \in Visitors, BeginLogin(p, v) PROVE TypeInv'
  <2> DEFINE req == [op |-> "dedupe", visitor |-> v, dups |-> Duplicates(v)]
  <2>1. Duplicates(v) \in SUBSET Ids
    BY <1>1 DEF Duplicates, Owned
  <2>2. req \in Request /\ req.op # "toggle"
    BY <2>1 DEF Request
  <2>3. Go(p, req) /\ UNCHANGED <<scene, rows, lastId, live, tagVars, ghosts>>
    BY <1>2 DEF BeginLogin
  <2> HIDE DEF req
  <2>4. QED
    BY <2>2, <2>3, TypesKept DEF tagVars, ghosts, TypeInv, TypeOK
<1>3. ASSUME NEW i \in Ids, DropDuplicate(p, i) PROVE TypeInv'
  <2> DEFINE req == [op |-> "dedupe", visitor |-> proc[p].visitor, dups |-> proc[p].dups \ {i}]
  <2>1. proc[p].visitor \in Visitors /\ proc[p].dups \in SUBSET Ids
    BY <1>1, <1>3, RequestFields DEF DropDuplicate
  <2>2. req \in Request /\ req.op # "toggle"
    BY <2>1 DEF Request
  <2>3. Go(p, req) /\ rows' = Without({i}) /\ UNCHANGED <<scene, lastId, live, tagVars, ghosts>>
    BY <1>3 DEF DropDuplicate
  <2>4. DOMAIN rows' \subseteq DOMAIN rows /\ \A j \in DOMAIN rows' : rows'[j] = rows[j]
    BY <2>3, WithoutRows
  <2> HIDE DEF req
  <2>5. QED
    BY <2>2, <2>3, <2>4, TypesKept DEF tagVars, ghosts, TypeInv, TypeOK
<1>4. ASSUME MoveRows(p) PROVE TypeInv'
  <2> DEFINE v == proc[p].visitor
             req == [op |-> "drop", visitor |-> v]
  <2>1. v \in Visitors
    BY <1>1, <1>4, RequestFields DEF MoveRows
  <2>2. req \in Request /\ req.op # "toggle"
    BY <2>1 DEF Request
  <2>3. UNCHANGED <<scene, lastId, live, tagVars, withdrawn, late>>
    BY <1>4 DEF MoveRows
  <2>4. CASE Duplicates(v) = {}
    <3>1. /\ rows' = [i \in DOMAIN rows |-> IF i \in Owned(v, "temp")
                                            THEN [rows[i] EXCEPT !.as = "person"] ELSE rows[i]]
          /\ moved' = moved \cup {v} /\ Go(p, req)
      BY <1>4, <2>4 DEF MoveRows
    <3>2. \A i \in DOMAIN rows : rows[i] \in Row /\ [rows[i] EXCEPT !.as = "person"] \in Row
      BY DEF TypeInv, TypeOK, Row
    <3>3. DOMAIN rows' = DOMAIN rows /\ \A i \in DOMAIN rows' : rows'[i] \in Row
      BY <3>1, <3>2
    <3>4. moved' \subseteq Visitors
      BY <2>1, <3>1 DEF TypeInv, TypeOK
    <3> HIDE DEF req
    <3>5. QED
      BY <2>2, <2>3, <3>1, <3>3, <3>4, TypesKept DEF tagVars, TypeInv, TypeOK
  <2>5. CASE Duplicates(v) # {}
    <3>1. Go(p, Idle) /\ UNCHANGED <<rows, moved>>
      BY <1>4, <2>5 DEF MoveRows
    <3>2. QED
      BY <2>3, <3>1, IdleTypes, TypesKept DEF tagVars, TypeInv, TypeOK
  <2>6. QED
    BY <2>4, <2>5
<1>5. ASSUME DropUser(p) PROVE TypeInv'
  <2>1. /\ live' = live \ {proc[p].visitor} /\ rows' = Without(Owned(proc[p].visitor, "temp"))
        /\ Go(p, Idle) /\ UNCHANGED <<scene, lastId, tagVars, ghosts>>
    BY <1>5 DEF DropUser
  <2>2. DOMAIN rows' \subseteq DOMAIN rows /\ \A j \in DOMAIN rows' : rows'[j] = rows[j]
    BY <2>1, WithoutRows
  <2>3. QED
    BY <2>1, <2>2, IdleTypes, TypesKept DEF tagVars, ghosts, TypeInv, TypeOK
<1>6. QED
  BY <1>2, <1>3, <1>4, <1>5

(* The moderator *)
LEMMA ModeratorTypes ==
    ASSUME TypeInv, NEW p \in Procs,
           \/ Block(p) \/ Unblock(p) \/ Approve(p) \/ Decide(p)
           \/ \E i \in DOMAIN rows : BeginToggle(p, i)
           \/ SaveToggle(p)
    PROVE  TypeInv'
<1> DEFINE decide(approved, v) == [op |-> "decide", approved |-> approved, verdict |-> v]
<1>1. proc[p] \in Request /\ \A i \in DOMAIN rows : rows[i] \in Row
  BY DEF TypeInv, TypeOK
<1>2. ASSUME NEW a \in BOOLEAN, NEW v \in {"block", "approve", "open"}
      PROVE  decide(a, v) \in Request /\ decide(a, v).op # "toggle"
  BY DEF Request
<1> HIDE DEF decide
<1>3. Block(p) => TypeInv'
  <2> SUFFICES ASSUME Block(p) PROVE TypeInv'
    OBVIOUS
  <2>1. /\ Go(p, decide(FALSE, "block")) /\ blocked' = TRUE
        /\ UNCHANGED <<scene, rows, lastId, live, tag, foreign, verdict, ghosts>>
    BY DEF Block, decide
  <2>2. QED
    BY <1>1, <1>2, <2>1, TypesKept DEF ghosts, TypeInv, TypeOK
<1>4. Unblock(p) => TypeInv'
  <2> SUFFICES ASSUME Unblock(p) PROVE TypeInv'
    OBVIOUS
  <2>1. /\ Go(p, decide(TRUE, "open")) /\ blocked' = FALSE
        /\ UNCHANGED <<scene, rows, lastId, live, tag, foreign, verdict, ghosts>>
    BY DEF Unblock, decide
  <2>2. QED
    BY <1>1, <1>2, <2>1, TypesKept DEF ghosts, TypeInv, TypeOK
<1>5. Approve(p) => TypeInv'
  <2> SUFFICES ASSUME Approve(p) PROVE TypeInv'
    OBVIOUS
  <2>1. /\ Go(p, decide(TRUE, "approve")) /\ tag' = "approved"
        /\ UNCHANGED <<scene, rows, lastId, live, blocked, foreign, verdict, ghosts>>
    BY DEF Approve, decide
  <2>2. QED
    BY <1>1, <1>2, <2>1, TypesKept DEF ghosts, TypeInv, TypeOK, TagStates
<1>6. Decide(p) => TypeInv'
  <2> SUFFICES ASSUME Decide(p) PROVE TypeInv'
    OBVIOUS
  <2>1. /\ rows' = [i \in DOMAIN rows |-> [rows[i] EXCEPT !.approved = proc[p].approved]]
        /\ verdict' = proc[p].verdict /\ Go(p, Idle)
        /\ UNCHANGED <<scene, lastId, live, blocked, tag, foreign, ghosts>>
    BY DEF Decide
  <2>2. proc[p].approved \in BOOLEAN /\ proc[p].verdict \in {"block", "approve", "open"}
    BY <1>1, RequestFields DEF Decide
  <2>3. DOMAIN rows' = DOMAIN rows /\ \A i \in DOMAIN rows' : rows'[i] \in Row
    BY <1>1, <2>1, <2>2 DEF Row
  <2>4. QED
    BY <2>1, <2>2, <2>3, IdleTypes, TypesKept DEF ghosts, TypeInv, TypeOK
<1>7. ASSUME NEW i \in DOMAIN rows, BeginToggle(p, i) PROVE TypeInv'
  <2> DEFINE row == [rows[i] EXCEPT !.approved = ~rows[i].approved]
             req == [op |-> "toggle", id |-> i, row |-> row]
  <2>1. row \in Row
    BY <1>1 DEF Row
  <2>2. i \in 1..lastId /\ i \in Ids
    BY StoreAssumption DEF TypeInv, TypeOK, Ids
  <2>3. Go(p, req) /\ UNCHANGED <<scene, rows, lastId, live, tagVars, ghosts>>
    BY <1>7 DEF BeginToggle
  <2> HIDE DEF row
  <2>4. req \in Request /\ req.id = i
    BY <2>1, <2>2 DEF Request
  <2> HIDE DEF req
  <2>5. QED
    BY <1>1, <2>2, <2>3, <2>4, TypesKept DEF tagVars, ghosts, TypeInv, TypeOK
<1>8. SaveToggle(p) => TypeInv'
  <2> SUFFICES ASSUME SaveToggle(p) PROVE TypeInv'
    OBVIOUS
  <2> DEFINE i == proc[p].id
             r == proc[p].row
  <2>1. i \in 1..lastId /\ r \in Row
    BY <1>1, RequestFields DEF SaveToggle, TypeInv
  <2>2. Go(p, Idle) /\ UNCHANGED <<scene, lastId, live, blocked, tag, foreign, ghosts>>
    BY DEF SaveToggle
  <2>3. \/ UNCHANGED <<rows, verdict>>
        \/ /\ rows' = [j \in DOMAIN rows \cup {i} |-> IF j = i THEN r ELSE rows[j]]
           /\ verdict' = "open"
    BY DEF SaveToggle
  <2>4. /\ DOMAIN rows' \subseteq 1..lastId /\ \A j \in DOMAIN rows' : rows'[j] \in Row
        /\ verdict' \in {"block", "approve", "open"}
    BY <1>1, <2>1, <2>3 DEF TypeInv, TypeOK
  <2>5. lastId' \in lastId..MaxRows
    BY <2>2, StoreAssumption DEF TypeInv, TypeOK
  <2>6. /\ proc' \in [Procs -> Request]
        /\ \A q \in Procs : proc'[q].op = "toggle" => proc'[q].id \in 1..lastId'
    BY <2>2, <2>5, IdleTypes, GoTypes
  <2>7. QED
    BY <2>2, <2>4, <2>6 DEF TypeInv, TypeOK, ghosts
<1>9. QED
  BY <1>3, <1>4, <1>5, <1>6, <1>7, <1>8

(* Every step of the table keeps the types. *)
LEMMA TypeStep == TypeInv /\ [Next]_vars => TypeInv'
<1> SUFFICES ASSUME TypeInv, [Next]_vars PROVE TypeInv'
  OBVIOUS
<1>1. CASE UNCHANGED vars
  BY <1>1 DEF vars, TypeInv, TypeOK
<1>2. CASE OtherGroup
  BY <1>2, OtherGroupFrame DEF TypeInv, TypeOK
<1>3. CASE Next /\ ~OtherGroup
  <2>1. PICK p \in Procs :
            \/ \E v \in Visitors, as \in {"temp", "person"}, c \in Contents, parent \in 0..MaxRows :
                   BeginCreate(p, v, as, c, parent)
            \/ \E i \in DOMAIN rows : Delete(p, i)
            \/ \E v \in Visitors : BeginLogin(p, v)
            \/ Block(p) \/ Unblock(p) \/ Approve(p)
            \/ \E i \in DOMAIN rows : BeginToggle(p, i)
            \/ Work(p)
    BY <1>3 DEF Next
  <2>2. Work(p) => TypeInv'
    BY SaveTypes, CreateTagTypes, LoginTypes, ModeratorTypes DEF Work
  <2>3. QED
    BY <2>1, <2>2, BeginCreateTypes, DeleteTypes, LoginTypes, ModeratorTypes
<1>4. QED
  BY <1>1, <1>2, <1>3

(* The table, the tags and every request under way have their types: ids    *)
(* come from the counter alone, and what a request reads has the types it   *)
(* is written back with.                                                    *)
THEOREM StoreTypeCorrect == Spec => []TypeOK
<1>1. TypeInv => TypeOK
  BY DEF TypeInv
<1>2. QED
  BY <1>1, TypeStart, TypeStep, PTL DEF Spec

-----------------------------------------------------------------------------
(* One request at a time                                                    *)

(* The scene is the same after every step. *)
LEMMA VerdictKept ==
    ASSUME scene' = scene,
           scene.serial =>
               /\ (\A p \in Procs : proc'[p].op # "decide") => TagAgrees(verdict', blocked', tag')
               /\ \A p \in Procs : RequestAgrees(proc'[p], verdict', blocked', tag')
               /\ RowsAgree(verdict', rows')
    PROVE  VerdictInv'
BY DEF VerdictInv, RequestAgrees, RowsAgree, Screened

(* It is enough to look at the request that goes on. *)
LEMMA SerialGo ==
    ASSUME SerialInv, TypeInv', NEW p \in Procs, NEW request \in Request, Go(p, request),
           Free(p) \/ proc[p].op # "idle",
           scene' = scene,
           scene.serial =>
               /\ request.op # "decide" => TagAgrees(verdict', blocked', tag')
               /\ RequestAgrees(request, verdict', blocked', tag')
               /\ RowsAgree(verdict', rows'),
           scene.serial /\ scene.kind = "pictures" =>
               OneContent(rows') /\ SameContent(request, rows')
    PROVE  SerialInv'
<1>1. proc \in [Procs -> Request]
  BY DEF SerialInv, TypeInv, TypeOK
<1>2. proc'[p] = request /\ \A q \in Procs : q # p => proc'[q] = proc[q]
  BY <1>1 DEF Go
<1>3. ASSUME scene.serial, NEW q \in Procs, q # p PROVE proc'[q].op = "idle"
  <2>1. proc[q].op = "idle"
    BY <1>3, IdleTypes DEF Free, SerialInv, OneAtATime
  <2>2. QED
    BY <1>2, <1>3, <2>1
<1>4. OneAtATime'
  BY <1>3 DEF OneAtATime
<1>5. VerdictInv'
  <2> SUFFICES ASSUME scene.serial
               PROVE  /\ (\A q \in Procs : proc'[q].op # "decide") =>
                              TagAgrees(verdict', blocked', tag')
                      /\ \A q \in Procs : RequestAgrees(proc'[q], verdict', blocked', tag')
                      /\ RowsAgree(verdict', rows')
    BY VerdictKept
  <2>1. scene.serial
    OBVIOUS
  <2>2. ASSUME NEW q \in Procs PROVE RequestAgrees(proc'[q], verdict', blocked', tag')
    <3>1. CASE q = p
      BY <1>2, <2>1, <3>1
    <3>2. CASE q # p
      BY <1>3, <2>1, <3>2 DEF RequestAgrees
    <3>3. QED
      BY <3>1, <3>2
  <2>3. (\A q \in Procs : proc'[q].op # "decide") => TagAgrees(verdict', blocked', tag')
    BY <1>2, <2>1
  <2>4. QED
    BY <2>1, <2>2, <2>3
<1>6. PictureInv'
  <2> SUFFICES ASSUME scene.serial, scene.kind = "pictures" PROVE PictureInv'
    BY DEF PictureInv
  <2>1. scene.serial /\ scene.kind = "pictures"
    OBVIOUS
  <2>2. ASSUME NEW q \in Procs PROVE SameContent(proc'[q], rows')
    <3>1. CASE q = p
      BY <1>2, <2>1, <3>1
    <3>2. CASE q # p
      BY <1>3, <2>1, <3>2 DEF SameContent
    <3>3. QED
      BY <3>1, <3>2
  <2>3. QED
    BY <2>1, <2>2 DEF PictureInv
<1>7. QED
  BY <1>4, <1>5, <1>6 DEF SerialInv

(* Nothing is saved, decided or under way. *)
LEMMA SerialStart == Init => SerialInv
<1> SUFFICES ASSUME Init PROVE SerialInv
  OBVIOUS
<1>1. \A p \in Procs : proc[p].op = "idle"
  BY DEF Init, Idle
<1>2. DOMAIN rows = {} /\ verdict = "open"
  BY DEF Init
<1>3. TypeInv
  BY TypeStart
<1>4. OneAtATime
  BY <1>1 DEF OneAtATime
<1>5. VerdictInv
  BY <1>1, <1>2 DEF VerdictInv, TagAgrees, RequestAgrees, RowsAgree
<1>6. PictureInv
  BY <1>1, <1>2 DEF PictureInv, OneContent, SameContent
<1>7. QED
  BY <1>3, <1>4, <1>5, <1>6 DEF SerialInv

(* What may be used of the invariant when request p goes on in a serial     *)
(* scene: it is the only one.                                               *)
LEMMA SerialFacts ==
    ASSUME SerialInv, NEW p \in Procs, scene.serial, Free(p) \/ proc[p].op # "idle"
    PROVE  /\ proc[p] \in Request /\ verdict \in {"block", "approve", "open"}
           /\ proc[p].op # "decide" => TagAgrees(verdict, blocked, tag)
           /\ RequestAgrees(proc[p], verdict, blocked, tag)
           /\ RowsAgree(verdict, rows)
           /\ scene.kind = "pictures" => OneContent(rows) /\ SameContent(proc[p], rows)
<1>1. \A q \in Procs : q # p => proc[q].op # "decide"
  BY IdleTypes DEF Free, SerialInv, OneAtATime
<1>2. proc[p] \in Request /\ verdict \in {"block", "approve", "open"}
  BY DEF SerialInv, TypeInv, TypeOK
<1>3. QED
  BY <1>1, <1>2 DEF SerialInv, VerdictInv, PictureInv

(* Taking rows away disturbs nothing. *)
LEMMA FewerRows ==
    ASSUME NEW S, NEW v, NEW r
    PROVE  /\ RowsAgree(v, rows) => RowsAgree(v, Without(S))
           /\ OneContent(rows) => OneContent(Without(S))
           /\ SameContent(r, rows) => SameContent(r, Without(S))
<1>1. /\ DOMAIN Without(S) \subseteq DOMAIN rows
      /\ \A i \in DOMAIN Without(S) : Without(S)[i] = rows[i]
  BY WithoutRows
<1>2. RowsAgree(v, rows) => RowsAgree(v, Without(S))
  BY <1>1 DEF RowsAgree
<1>3. OneContent(rows) => OneContent(Without(S))
  BY <1>1 DEF OneContent
<1>4. SameContent(r, rows) => SameContent(r, Without(S))
  BY <1>1 DEF SameContent
<1>5. QED
  BY <1>2, <1>3, <1>4

(* createInteraction: the reads, and the row they lead to. *)
LEMMA SerialCreate ==
    ASSUME SerialInv, TypeInv', NEW p \in Procs, NEW v \in Visitors,
           NEW as \in {"temp", "person"}, NEW c \in Contents, NEW parent \in 0..MaxRows,
           BeginCreate(p, v, as, c, parent)
    PROVE  SerialInv'
<1> DEFINE row(node, approved) == [visitor |-> v, as |-> as, content |-> node,
                                   parent |-> parent, approved |-> approved]
           req(node, approved) ==
               [op |-> "save", row |-> row(node, approved), isNew |-> KnownTags = {}]
<1>1. PICK node \in ContentNode(c), approved \in ApproveOnCreate : Go(p, req(node, approved))
  BY DEF BeginCreate
<1>2. /\ Free(p) /\ (Screened => ~blocked)
      /\ UNCHANGED <<scene, rows, lastId, live, tagVars, ghosts>>
  BY DEF BeginCreate
<1>3. node \in Contents
  BY DEF ContentNode, SerialInv, TypeInv, TypeOK, Row
<1>4. approved \in BOOLEAN
  BY ApproveValues
<1>5. row(node, approved) \in Row
  BY <1>3, <1>4 DEF Row
<1>6. /\ req(node, approved) \in Request /\ req(node, approved).op = "save"
      /\ req(node, approved).row.approved = approved /\ req(node, approved).row.content = node
  BY <1>5 DEF Request
<1>7. UNCHANGED <<scene, rows, blocked, tag, verdict>>
  BY <1>2 DEF tagVars
<1> HIDE DEF req
<1>8. ASSUME scene.serial
      PROVE  /\ TagAgrees(verdict', blocked', tag')
             /\ RequestAgrees(req(node, approved), verdict', blocked', tag')
             /\ RowsAgree(verdict', rows')
  <2>1. TagAgrees(verdict, blocked, tag) /\ RowsAgree(verdict, rows)
    BY <1>2, <1>8, IdleTypes, SerialFacts DEF Free
  <2>2. Screened => verdict # "block"
    BY <1>2, <2>1 DEF TagAgrees
  <2>3. ASSUME verdict = "approve", ~scene.shared PROVE approved
    <3>1. tag = "approved" /\ foreign = "none"
      BY <2>1, <2>3 DEF TagAgrees, SerialInv, TypeInv, TypeOK
    <3>2. KnownTags = {"approved"}
      BY <3>1 DEF KnownTags
    <3>3. ApproveOnCreate = {TRUE}
      BY <3>2 DEF ApproveOnCreate
    <3>4. QED
      BY <3>3
  <2>4. QED
    BY <1>2, <1>6, <1>7, <2>1, <2>2, <2>3 DEF RequestAgrees, RowsAgree
<1>9. ASSUME scene.serial, scene.kind = "pictures"
      PROVE  OneContent(rows') /\ SameContent(req(node, approved), rows')
  <2>1. OneContent(rows)
    BY <1>2, <1>9, SerialFacts
  <2>2. \A i \in DOMAIN rows : rows[i].content = node
    BY <1>9, <2>1 DEF ContentNode, OneContent
  <2>3. QED
    BY <1>6, <1>7, <2>1, <2>2 DEF SameContent
<1>10. QED
  BY <1>1, <1>2, <1>6, <1>7, <1>8, <1>9, SerialGo

(* createInteraction: the row that is saved agrees with the decision. *)
LEMMA SerialSave ==
    ASSUME SerialInv, TypeInv', NEW p \in Procs, Save(p)
    PROVE  SerialInv'
<1> DEFINE r == proc[p].row
           next == IF proc[p].isNew THEN [op |-> "tag", approved |-> r.approved] ELSE Idle
<1>1. proc[p].op = "save" /\ proc[p].op # "idle" /\ UNCHANGED <<scene, blocked, tag, verdict>>
  BY DEF Save, tagVars
<1>2. r \in Row /\ lastId \in Nat /\ lastId + 1 \notin DOMAIN rows
  <2>1. proc[p] \in Request /\ lastId \in Nat /\ DOMAIN rows \subseteq 1..lastId
    BY StoreAssumption DEF SerialInv, TypeInv, TypeOK
  <2>2. lastId + 1 \notin 1..lastId
    BY <2>1
  <2>3. QED
    BY <1>1, <2>1, <2>2, RequestFields
<1>3. next \in Request /\ next.op \in {"tag", "idle"}
  BY <1>2, IdleTypes DEF Request, Row
<1>4. \/ Go(p, Idle) /\ rows' = rows
      \/ /\ Go(p, next)
         /\ rows' = [i \in DOMAIN rows \cup {lastId + 1} |-> IF i = lastId + 1 THEN r ELSE rows[i]]
  BY DEF Save
<1> HIDE DEF next
<1>5. PICK request \in Request : request.op \in {"tag", "idle"} /\ Go(p, request)
  BY <1>3, <1>4, IdleTypes
<1>6. \A i \in DOMAIN rows' : (i \in DOMAIN rows /\ rows'[i] = rows[i]) \/ rows'[i] = r
  BY <1>2, <1>4
<1>7. ASSUME scene.serial
      PROVE  /\ TagAgrees(verdict', blocked', tag')
             /\ RequestAgrees(request, verdict', blocked', tag')
             /\ RowsAgree(verdict', rows')
  <2>1. /\ TagAgrees(verdict, blocked, tag) /\ RowsAgree(verdict, rows)
        /\ RequestAgrees(proc[p], verdict, blocked, tag)
    BY <1>1, <1>7, SerialFacts
  <2>2. /\ Screened => verdict # "block"
        /\ verdict = "approve" /\ ~scene.shared => r.approved
    BY <1>1, <2>1 DEF RequestAgrees
  <2>3. RowsAgree(verdict', rows')
    BY <1>1, <1>6, <2>1, <2>2 DEF RowsAgree
  <2>4. QED
    BY <1>1, <1>5, <2>1, <2>3 DEF RequestAgrees
<1>8. ASSUME scene.serial, scene.kind = "pictures"
      PROVE  OneContent(rows') /\ SameContent(request, rows')
  <2>1. OneContent(rows) /\ SameContent(proc[p], rows)
    BY <1>1, <1>8, SerialFacts
  <2>2. \A i \in DOMAIN rows : rows[i].content = r.content
    BY <1>1, <2>1 DEF SameContent
  <2>3. \A i \in DOMAIN rows' : rows'[i].content = r.content
    BY <1>6, <2>2
  <2>4. QED
    BY <1>5, <2>3 DEF OneContent, SameContent
<1>9. QED
  BY <1>1, <1>5, <1>7, <1>8, SerialGo

(* createInteraction: the AllTag row follows the decision. *)
LEMMA SerialTag ==
    ASSUME SerialInv, TypeInv', NEW p \in Procs, CreateTag(p)
    PROVE  SerialInv'
<1>1. /\ proc[p].op = "tag" /\ proc[p].op \notin {"idle", "decide"} /\ Go(p, Idle)
      /\ UNCHANGED <<scene, rows, blocked, verdict>>
  BY DEF CreateTag
<1>2. tag # "none" => tag' = tag
  BY DEF CreateTag
<1>3. ASSUME scene.serial
      PROVE  TagAgrees(verdict', blocked', tag') /\ RowsAgree(verdict', rows')
  <2>1. TagAgrees(verdict, blocked, tag) /\ RowsAgree(verdict, rows)
    BY <1>1, <1>3, SerialFacts
  <2>2. QED
    BY <1>1, <1>2, <2>1 DEF TagAgrees
<1>4. ASSUME scene.serial, scene.kind = "pictures" PROVE OneContent(rows')
  BY <1>1, <1>4, SerialFacts
<1>5. \A v, b, t, table : RequestAgrees(Idle, v, b, t) /\ SameContent(Idle, table)
  BY IdleTypes DEF RequestAgrees, SameContent
<1>6. QED
  BY <1>1, <1>3, <1>4, <1>5, IdleTypes, SerialGo

(* deleteInteraction *)
LEMMA SerialDelete ==
    ASSUME SerialInv, TypeInv', NEW p \in Procs, NEW i \in DOMAIN rows, Delete(p, i)
    PROVE  SerialInv'
<1>1. rows' = Without({i}) /\ UNCHANGED <<scene, proc, blocked, tag, verdict>>
  BY DEF Delete, tagVars
<1>2. OneAtATime'
  BY <1>1 DEF SerialInv, OneAtATime
<1>3. VerdictInv'
  <2>1. RowsAgree(verdict, rows) => RowsAgree(verdict, Without({i}))
    BY FewerRows
  <2>2. QED
    BY <1>1, <2>1, VerdictKept DEF SerialInv, VerdictInv
<1>4. PictureInv'
  <2>1. OneContent(rows) => OneContent(Without({i}))
    BY FewerRows
  <2>2. \A q \in Procs : SameContent(proc[q], rows) => SameContent(proc[q], Without({i}))
    BY FewerRows
  <2>3. QED
    BY <1>1, <2>1, <2>2 DEF SerialInv, PictureInv
<1>5. QED
  BY <1>2, <1>3, <1>4 DEF SerialInv

(* A login changes neither contents nor approval, and carries no row. *)
LEMMA SerialLogin ==
    ASSUME SerialInv, TypeInv', NEW p \in Procs,
           \/ \E v \in Visitors : BeginLogin(p, v)
           \/ \E i \in Ids : DropDuplicate(p, i)
           \/ MoveRows(p)
           \/ DropUser(p)
    PROVE  SerialInv'
<1>1. proc[p] \in Request
  BY DEF SerialInv, TypeInv, TypeOK
<1>2. ASSUME NEW request \in Request, request.op \notin {"save", "decide", "toggle"},
             Go(p, request), Free(p) \/ proc[p].op \notin {"idle", "decide"},
             UNCHANGED <<scene, blocked, tag, verdict>>,
             \A i \in DOMAIN rows' :
                 /\ i \in DOMAIN rows
                 /\ rows'[i].content = rows[i].content /\ rows'[i].approved = rows[i].approved
      PROVE  SerialInv'
  <2>1. ASSUME scene.serial
        PROVE  TagAgrees(verdict', blocked', tag') /\ RowsAgree(verdict', rows')
    <3>1. TagAgrees(verdict, blocked, tag) /\ RowsAgree(verdict, rows)
      BY <1>2, <2>1, IdleTypes, SerialFacts DEF Free
    <3>2. QED
      BY <1>2, <3>1 DEF RowsAgree
  <2>2. ASSUME scene.serial, scene.kind = "pictures" PROVE OneContent(rows')
    <3>1. OneContent(rows)
      BY <1>2, <2>2, SerialFacts
    <3>2. QED
      BY <1>2, <3>1 DEF OneContent
  <2>3. /\ RequestAgrees(request, verdict', blocked', tag')
        /\ SameContent(request, rows')
    BY <1>2 DEF RequestAgrees, SameContent
  <2>4. QED
    BY <1>2, <2>1, <2>2, <2>3, SerialGo
<1>3. ASSUME NEW v \in Visitors, BeginLogin(p, v) PROVE SerialInv'
  <2> DEFINE req == [op |-> "dedupe", visitor |-> v, dups |-> Duplicates(v)]
  <2>1. Duplicates(v) \in SUBSET Ids
    BY StoreAssumption DEF Duplicates, Owned, SerialInv, TypeInv, TypeOK, Ids
  <2>2. req \in Request /\ req.op = "dedupe"
    BY <2>1 DEF Request
  <2>3. Free(p) /\ Go(p, req) /\ UNCHANGED <<scene, rows, blocked, tag, verdict>>
    BY <1>3 DEF BeginLogin, tagVars
  <2> HIDE DEF req
  <2>4. QED
    BY <1>2, <2>2, <2>3
<1>4. ASSUME NEW i \in Ids, DropDuplicate(p, i) PROVE SerialInv'
  <2> DEFINE req == [op |-> "dedupe", visitor |-> proc[p].visitor, dups |-> proc[p].dups \ {i}]
  <2>1. proc[p].op = "dedupe" /\ proc[p].visitor \in Visitors /\ proc[p].dups \in SUBSET Ids
    BY <1>1, <1>4, RequestFields DEF DropDuplicate
  <2>2. req \in Request /\ req.op = "dedupe"
    BY <2>1 DEF Request
  <2>3. Go(p, req) /\ rows' = Without({i}) /\ UNCHANGED <<scene, blocked, tag, verdict>>
    BY <1>4 DEF DropDuplicate, tagVars
  <2>4. DOMAIN rows' \subseteq DOMAIN rows /\ \A j \in DOMAIN rows' : rows'[j] = rows[j]
    BY <2>3, WithoutRows
  <2> HIDE DEF req
  <2>5. QED
    BY <1>2, <2>1, <2>2, <2>3, <2>4
<1>5. ASSUME MoveRows(p) PROVE SerialInv'
  <2> DEFINE v == proc[p].visitor
             req == [op |-> "drop", visitor |-> v]
  <2>1. proc[p].op = "dedupe" /\ v \in Visitors
    BY <1>1, <1>5, RequestFields DEF MoveRows
  <2>2. req \in Request /\ req.op = "drop"
    BY <2>1 DEF Request
  <2>3. UNCHANGED <<scene, blocked, tag, verdict>>
    BY <1>5 DEF MoveRows, tagVars
  <2>4. CASE Duplicates(v) = {}
    <3>1. /\ rows' = [i \in DOMAIN rows |-> IF i \in Owned(v, "temp")
                                            THEN [rows[i] EXCEPT !.as = "person"] ELSE rows[i]]
          /\ Go(p, req)
      BY <1>5, <2>4 DEF MoveRows
    <3>2. \A i \in DOMAIN rows : rows[i] \in Row
      BY DEF SerialInv, TypeInv, TypeOK
    <3>3. \A i \in DOMAIN rows' :
              /\ i \in DOMAIN rows
              /\ rows'[i].content = rows[i].content /\ rows'[i].approved = rows[i].approved
      BY <3>1, <3>2 DEF Row
    <3> HIDE DEF req
    <3>4. QED
      BY <1>2, <2>1, <2>2, <2>3, <3>1, <3>3
  <2>5. CASE Duplicates(v) # {}
    <3>1. Go(p, Idle) /\ UNCHANGED <<rows, moved>>
      BY <1>5, <2>5 DEF MoveRows
    <3>2. QED
      BY <1>2, <2>1, <2>3, <3>1, IdleTypes
  <2>6. QED
    BY <2>4, <2>5
<1>6. ASSUME DropUser(p) PROVE SerialInv'
  <2>1. /\ proc[p].op = "drop" /\ rows' = Without(Owned(proc[p].visitor, "temp"))
        /\ Go(p, Idle) /\ UNCHANGED <<scene, blocked, tag, verdict>>
    BY <1>6 DEF DropUser, tagVars
  <2>2. DOMAIN rows' \subseteq DOMAIN rows /\ \A j \in DOMAIN rows' : rows'[j] = rows[j]
    BY <2>1, WithoutRows
  <2>3. QED
    BY <1>2, <2>1, <2>2, IdleTypes
<1>7. QED
  BY <1>3, <1>4, <1>5, <1>6

(* The views of a moderator: a decision changes the tag, then the rows. *)
LEMMA SerialModerator ==
    ASSUME SerialInv, TypeInv', NEW p \in Procs,
           \/ Block(p) \/ Unblock(p) \/ Approve(p) \/ Decide(p)
           \/ \E i \in DOMAIN rows : BeginToggle(p, i)
           \/ SaveToggle(p)
    PROVE  SerialInv'
<1> DEFINE decide(approved, v) == [op |-> "decide", approved |-> approved, verdict |-> v]
<1>1. proc[p] \in Request /\ \A i \in DOMAIN rows : rows[i] \in Row
  BY DEF SerialInv, TypeInv, TypeOK
<1>2. ASSUME NEW a \in BOOLEAN, NEW v \in {"block", "approve", "open"}
      PROVE  /\ decide(a, v) \in Request /\ decide(a, v).op = "decide"
             /\ decide(a, v).approved = a /\ decide(a, v).verdict = v
  BY DEF Request
<1> HIDE DEF decide
(* A decision that agrees with the tag is begun. *)
<1>3. ASSUME NEW a \in BOOLEAN, NEW v \in {"block", "approve", "open"},
             Free(p), Go(p, decide(a, v)), scene.kind = "moderated",
             UNCHANGED <<scene, rows, verdict>>,
             TagAgrees(v, blocked', tag'), v = "block" => ~a, v = "approve" => a
      PROVE  SerialInv'
  <2>1. ASSUME scene.serial
        PROVE  /\ RequestAgrees(decide(a, v), verdict', blocked', tag')
               /\ RowsAgree(verdict', rows')
    <3>1. RowsAgree(verdict, rows)
      BY <1>3, <2>1, SerialFacts
    <3>2. QED
      BY <1>2, <1>3, <3>1 DEF RequestAgrees
  <2>2. decide(a, v) \in Request /\ decide(a, v).op = "decide"
    BY <1>2
  <2>3. QED
    BY <1>3, <2>1, <2>2, SerialGo
<1>4. Block(p) => SerialInv'
  <2> SUFFICES ASSUME Block(p) PROVE SerialInv'
    OBVIOUS
  <2>1. /\ Free(p) /\ Go(p, decide(FALSE, "block")) /\ scene.kind = "moderated"
        /\ blocked' = TRUE /\ UNCHANGED <<scene, rows, verdict>>
    BY DEF Block, decide
  <2>2. TagAgrees("block", blocked', tag')
    BY <2>1 DEF TagAgrees
  <2>3. QED
    BY <1>3, <2>1, <2>2
<1>5. Unblock(p) => SerialInv'
  <2> SUFFICES ASSUME Unblock(p) PROVE SerialInv'
    OBVIOUS
  <2>1. /\ Free(p) /\ Go(p, decide(TRUE, "open")) /\ scene.kind = "moderated"
        /\ UNCHANGED <<scene, rows, verdict>>
    BY DEF Unblock, decide
  <2>2. TagAgrees("open", blocked', tag')
    BY DEF TagAgrees
  <2>3. QED
    BY <1>3, <2>1, <2>2
<1>6. Approve(p) => SerialInv'
  <2> SUFFICES ASSUME Approve(p) PROVE SerialInv'
    OBVIOUS
  <2>1. /\ Free(p) /\ Go(p, decide(TRUE, "approve")) /\ scene.kind = "moderated"
        /\ tag' = "approved" /\ UNCHANGED <<scene, rows, verdict>>
    BY DEF Approve, decide
  <2>2. TagAgrees("approve", blocked', tag')
    BY <2>1 DEF TagAgrees
  <2>3. QED
    BY <1>3, <2>1, <2>2
<1>7. \A v, b, t, table : RequestAgrees(Idle, v, b, t) /\ SameContent(Idle, table)
  BY IdleTypes DEF RequestAgrees, SameContent
<1>8. Decide(p) => SerialInv'
  <2> SUFFICES ASSUME Decide(p) PROVE SerialInv'
    OBVIOUS
  <2>1. /\ proc[p].op = "decide" /\ Go(p, Idle) /\ verdict' = proc[p].verdict
        /\ rows' = [i \in DOMAIN rows |-> [rows[i] EXCEPT !.approved = proc[p].approved]]
        /\ UNCHANGED <<scene, blocked, tag>>
    BY DEF Decide
  <2>2. /\ DOMAIN rows' = DOMAIN rows
        /\ \A i \in DOMAIN rows' : /\ rows'[i].approved = proc[p].approved
                                   /\ rows'[i].content = rows[i].content
    BY <1>1, <2>1 DEF Row
  <2>3. ASSUME scene.serial
        PROVE  TagAgrees(verdict', blocked', tag') /\ RowsAgree(verdict', rows')
    <3>1. RequestAgrees(proc[p], verdict, blocked, tag)
      BY <2>1, <2>3, SerialFacts
    <3>2. QED
      BY <2>1, <2>2, <3>1 DEF RequestAgrees, RowsAgree
  <2>4. ASSUME scene.serial, scene.kind = "pictures" PROVE OneContent(rows')
    <3>1. OneContent(rows)
      BY <2>1, <2>4, SerialFacts
    <3>2. QED
      BY <2>2, <3>1 DEF OneContent
  <2>5. QED
    BY <1>7, <2>1, <2>3, <2>4, IdleTypes, SerialGo
<1>9. ASSUME NEW i \in DOMAIN rows, BeginToggle(p, i) PROVE SerialInv'
  <2> DEFINE row == [rows[i] EXCEPT !.approved = ~rows[i].approved]
             req == [op |-> "toggle", id |-> i, row |-> row]
  <2>1. /\ Free(p) /\ Go(p, req) /\ scene.kind = "moderated"
        /\ UNCHANGED <<scene, rows, blocked, tag, verdict>>
    BY <1>9 DEF BeginToggle, tagVars
  <2>2. row \in Row /\ i \in Ids
    <3>1. row \in Row
      BY <1>1 DEF Row
    <3>2. DOMAIN rows \subseteq 1..lastId /\ lastId \in 0..MaxRows
      BY DEF SerialInv, TypeInv, TypeOK
    <3>3. i \in Ids
      BY <3>2, StoreAssumption DEF Ids
    <3>4. QED
      BY <3>1, <3>3
  <2> HIDE DEF row
  <2>3. req \in Request /\ req.op = "toggle"
    BY <2>2 DEF Request
  <2> HIDE DEF req
  <2>4. ASSUME scene.serial
        PROVE  /\ TagAgrees(verdict', blocked', tag') /\ RowsAgree(verdict', rows')
               /\ RequestAgrees(req, verdict', blocked', tag')
    <3>1. TagAgrees(verdict, blocked, tag) /\ RowsAgree(verdict, rows)
      BY <2>1, <2>4, IdleTypes, SerialFacts DEF Free
    <3>2. QED
      BY <2>1, <2>3, <3>1 DEF RequestAgrees
  <2>5. QED
    BY <2>1, <2>3, <2>4, SerialGo
<1>10. SaveToggle(p) => SerialInv'
  <2> SUFFICES ASSUME SaveToggle(p) PROVE SerialInv'
    OBVIOUS
  <2>1. /\ proc[p].op = "toggle" /\ proc[p].op # "idle" /\ Go(p, Idle)
        /\ UNCHANGED <<scene, blocked, tag>>
        /\ (rows' = rows /\ verdict' = verdict) \/ verdict' = "open"
    BY DEF SaveToggle
  <2>2. ASSUME scene.serial
        PROVE  TagAgrees(verdict', blocked', tag') /\ RowsAgree(verdict', rows')
    <3>1. TagAgrees(verdict, blocked, tag) /\ RowsAgree(verdict, rows)
      BY <2>1, <2>2, SerialFacts
    <3>2. QED
      BY <2>1, <3>1 DEF TagAgrees, RowsAgree
  <2>3. ~(scene.serial /\ scene.kind = "pictures")
    BY <2>1, SerialFacts DEF SameContent
  <2>4. QED
    BY <1>7, <2>1, <2>2, <2>3, IdleTypes, SerialGo
<1>11. QED
  BY <1>4, <1>5, <1>6, <1>8, <1>9, <1>10

(* Every step of requests that come one at a time. *)
LEMMA SerialStep == SerialInv /\ [Next]_vars => SerialInv'
<1> SUFFICES ASSUME SerialInv, [Next]_vars PROVE SerialInv'
  OBVIOUS
<1>1. TypeInv'
  BY TypeStep DEF SerialInv
<1>2. CASE UNCHANGED vars \/ OtherGroup
  <2>1. UNCHANGED <<scene, proc, rows, verdict, blocked, tag>>
    BY <1>2, OtherGroupFrame DEF vars, tagVars
  <2>2. VerdictInv'
    BY <2>1, VerdictKept DEF SerialInv, VerdictInv
  <2>3. OneAtATime' /\ PictureInv'
    BY <2>1 DEF SerialInv, OneAtATime, PictureInv
  <2>4. QED
    BY <1>1, <2>2, <2>3 DEF SerialInv
<1>3. CASE Next /\ ~OtherGroup
  <2>1. PICK p \in Procs :
            \/ \E v \in Visitors, as \in {"temp", "person"}, c \in Contents, parent \in 0..MaxRows :
                   BeginCreate(p, v, as, c, parent)
            \/ \E i \in DOMAIN rows : Delete(p, i)
            \/ \E v \in Visitors : BeginLogin(p, v)
            \/ Block(p) \/ Unblock(p) \/ Approve(p)
            \/ \E i \in DOMAIN rows : BeginToggle(p, i)
            \/ Work(p)
    BY <1>3 DEF Next
  <2>2. Work(p) => SerialInv'
    BY <1>1, SerialSave, SerialTag, SerialLogin, SerialModerator DEF Work
  <2>3. QED
    BY <1>1, <2>1, <2>2, SerialCreate, SerialDelete, SerialLogin, SerialModerator
<1>4. QED
  BY <1>2, <1>3

(* When moderators and readers come one at a time, the rows agree with the  *)
(* moderator's last decision, those saved after it included: a block, where *)
(* new reactions are checked against it, and an approval, where no other    *)
(* group has the reaction                                                   *)
(* (handlers.py BlockedTagHandler, ApprovedTagHandler, createInteraction).  *)
THEOREM DecisionsStand == Spec => []ModerationHolds
<1>1. SerialInv => ModerationHolds
  BY DEF SerialInv, VerdictInv, RowsAgree, ModerationHolds, Hidden, Shown
<1>2. QED
  BY <1>1, SerialStart, SerialStep, PTL DEF Spec

(* One at a time, all reactions to a picture have one content, however many *)
(* addresses it was reached by, and whichever reactions are deleted, moved  *)
(* or made twice by a login (utils.py createInteraction).                   *)
THEOREM PicturesHaveOneContent == Spec => []PictureHasOneContent
<1>1. SerialInv => PictureHasOneContent
  BY DEF SerialInv, PictureInv, OneContent, PictureHasOneContent
<1>2. QED
  BY <1>1, SerialStart, SerialStep, PTL DEF Spec
-----------------------------------------------------------------------------
(* The ledger                                                               *)

Plain == scene.kind \notin {"agreeing", "moderated"}

HasTwin(i) ==
    \E j \in DOMAIN rows :
        /\ rows[j].visitor = rows[i].visitor /\ rows[j].content = rows[i].content
        /\ rows[j].as = "person" /\ rows[i].as = "temp"
        /\ j \notin late
        /\ \A q \in Procs : proc[q].op = "dedupe" => j \notin proc[q].dups

RowsInv ==
    /\ lastId \in Nat
    /\ \A i \in DOMAIN rows : i \in 1..lastId
    /\ \A i \in late : i \in 1..lastId
    /\ \A i \in DOMAIN rows : rows[i] \in Row /\ rows[i].parent = 0

(* What has moved: late rows are of visitors who have, and whoever has      *)
(* moved has only late rows under the temporary user.                       *)
MovedInv ==
    \A i \in DOMAIN rows :
        /\ i \in late => rows[i].visitor \in moved
        /\ rows[i].as = "temp" /\ rows[i].visitor \in moved => i \in late

SaveInv ==
    \A p \in Procs :
        /\ proc[p].op \notin {"decide", "toggle"}
        /\ proc[p].op = "save" => proc[p].row \in Row /\ proc[p].row.parent = 0
        /\ proc[p].op = "drop" => proc[p].visitor \in moved

DedupeInv ==
    \A p \in Procs : proc[p].op = "dedupe" =>
        \A i \in proc[p].dups :
            /\ i \in 1..lastId
            /\ i \in DOMAIN rows =>
                   /\ rows[i].visitor = proc[p].visitor
                   /\ rows[i].as = "person" => rows[i].visitor \in moved
                   /\ i \in late \/ EntryOf(rows[i]) \in withdrawn \/ HasTwin(i)

PlainInv == RowsInv /\ MovedInv /\ SaveInv /\ DedupeInv

StoreInv ==
    /\ proc = [p \in Procs |-> proc[p]]
    /\ Plain => PlainInv

-----------------------------------------------------------------------------
(* Without agreements a deletion takes exactly what it names.               *)
LEMMA NothingFollows ==
    ASSUME RowsInv, NEW S
    PROVE  /\ DOMAIN Without(S) = DOMAIN rows \ S
           /\ \A i \in DOMAIN rows \ S : Without(S)[i] = rows[i]
           /\ Cascade(S) = S \cap DOMAIN rows
<1>1. Closed(S \cap DOMAIN rows)
  BY DEF Closed, RowsInv
<1>2. S \cap DOMAIN rows \in SUBSET DOMAIN rows
  OBVIOUS
<1>3. Cascade(S) = S \cap DOMAIN rows
  BY <1>1, <1>2 DEF Cascade
<1>4. QED
  BY <1>3 DEF Without

LEMMA Start == Init => StoreInv
<1>1. Init => proc = [p \in Procs |-> proc[p]] /\ \A p \in Procs : proc[p] = [op |-> "idle"]
  BY DEF Init, Idle
<1>2. Init => DOMAIN rows = {} /\ late = {} /\ lastId = 0
  BY DEF Init
<1>3. QED
  BY <1>1, <1>2 DEF StoreInv, PlainInv, RowsInv, MovedInv, SaveInv, DedupeInv

(* Which request a step changes, and into what. *)
LEMMA Goes ==
    ASSUME proc = [p \in Procs |-> proc[p]], NEW p \in Procs, NEW request, Go(p, request)
    PROVE  /\ proc' = [q \in Procs |-> proc'[q]]
           /\ proc'[p] = request
           /\ \A q \in Procs : q # p => proc'[q] = proc[q]
BY DEF Go

-----------------------------------------------------------------------------
(* The steps of PlainInv, by action *)

LEMMA CreateStep ==
    ASSUME PlainInv, Plain, proc = [p \in Procs |-> proc[p]],
           NEW p \in Procs, NEW v \in Visitors, NEW as \in {"temp", "person"},
           NEW c \in Contents, NEW parent \in 0..MaxRows,
           BeginCreate(p, v, as, c, parent)
    PROVE  StoreInv'
<1>1. parent = 0
  BY DEF BeginCreate, Plain
<1> DEFINE row(node, approved) == [visitor |-> v, as |-> as, content |-> node,
                                   parent |-> parent, approved |-> approved]
           req(node, approved) ==
               [op |-> "save", row |-> row(node, approved), isNew |-> KnownTags = {}]
<1>2. PICK node \in ContentNode(c), approved \in ApproveOnCreate : Go(p, req(node, approved))
  BY DEF BeginCreate
<1>3. node \in Contents /\ row(node, approved) \in Row
  <2>1. node \in Contents
    BY DEF ContentNode, PlainInv, RowsInv, Row
  <2>2. approved \in BOOLEAN
    BY ApproveValues
  <2>3. QED
    BY <2>1, <2>2 DEF Row
<1>4. /\ proc' = [q \in Procs |-> proc'[q]]
      /\ proc'[p].op = "save"
      /\ proc'[p].row = row(node, approved) /\ row(node, approved).parent = 0
      /\ \A q \in Procs : q # p => proc'[q] = proc[q]
  <2>1. /\ req(node, approved).op = "save" /\ req(node, approved).row = row(node, approved)
        /\ row(node, approved).parent = 0
    BY <1>1
  <2> HIDE DEF req, row
  <2>2. QED
    BY <1>2, <2>1, Goes
<1>5. UNCHANGED <<scene, rows, lastId, live, withdrawn, moved, late>>
  BY DEF BeginCreate, ghosts
<1>6. RowsInv' /\ MovedInv'
  BY <1>5 DEF PlainInv, RowsInv, MovedInv
<1>7. SaveInv'
  <2> HIDE DEF row
  <2>1. QED
    BY <1>3, <1>4, <1>5 DEF PlainInv, SaveInv
<1>8. \A i : HasTwin(i) => HasTwin(i)'
  BY <1>4, <1>5 DEF HasTwin
<1>9. DedupeInv'
  BY <1>4, <1>5, <1>8 DEF PlainInv, DedupeInv, EntryOf
<1>10. QED
  BY <1>4, <1>6, <1>7, <1>9 DEF StoreInv, PlainInv

LEMMA SaveStep ==
    ASSUME PlainInv, Plain, proc = [p \in Procs |-> proc[p]], NEW p \in Procs, Save(p)
    PROVE  /\ StoreInv'
           /\ withdrawn' = withdrawn
           /\ \/ Entries' = Entries
              \/ Entries' = Entries \cup {EntryOf(proc[p].row)}
<1> DEFINE r == proc[p].row
           new == lastId + 1
<1>1. /\ proc[p].op = "save" /\ r \in Row /\ r.parent = 0
      /\ UNCHANGED <<scene, withdrawn, moved>>
  BY DEF Save, PlainInv, SaveInv
<1>2. /\ proc' = [q \in Procs |-> proc'[q]]
      /\ proc'[p].op \in {"idle", "tag"}
      /\ \A q \in Procs : q # p => proc'[q] = proc[q]
  <2>1. PICK req : Go(p, req) /\ req.op \in {"idle", "tag"}
    <3>1. CASE Allowed(r, DOMAIN rows) /\ lastId < MaxRows
      <4>1. CASE proc[p].isNew
        <5>1. Go(p, [op |-> "tag", approved |-> r.approved])
          BY <3>1, <4>1 DEF Save
        <5>2. QED
          BY <5>1
      <4>2. CASE ~proc[p].isNew
        BY <3>1, <4>2 DEF Save, Idle
      <4>3. QED
        BY <4>1, <4>2
    <3>2. CASE ~(Allowed(r, DOMAIN rows) /\ lastId < MaxRows)
      BY <3>2 DEF Save, Idle
    <3>3. QED
      BY <3>1, <3>2
  <2>2. QED
    BY <2>1, Goes
<1>3. SaveInv'
  BY <1>1, <1>2 DEF PlainInv, SaveInv
<1>4. CASE UNCHANGED <<rows, lastId, late>>
  <2>1. RowsInv' /\ MovedInv'
    BY <1>1, <1>4 DEF PlainInv, RowsInv, MovedInv
  <2>2. \A i : HasTwin(i) => HasTwin(i)'
    BY <1>2, <1>4 DEF HasTwin
  <2>3. DedupeInv'
    BY <1>1, <1>2, <1>4, <2>2 DEF PlainInv, DedupeInv, EntryOf
  <2>4. Entries' = Entries
    BY <1>1, <1>4 DEF Entries, EntryOf
  <2>5. QED
    BY <1>1, <1>2, <1>3, <2>1, <2>3, <2>4 DEF StoreInv, PlainInv
<1>5. CASE ~UNCHANGED <<rows, lastId, late>>
  <2>1. /\ lastId' = new
        /\ rows' = [i \in DOMAIN rows \cup {new} |-> IF i = new THEN r ELSE rows[i]]
        /\ late' = IF r.as = "temp" /\ r.visitor \in moved THEN late \cup {new} ELSE late
    BY <1>5 DEF Save
  <2>2. /\ lastId \in Nat /\ new \in Nat /\ new \notin DOMAIN rows /\ new \notin late
        /\ new \in 1..new /\ \A i \in 1..lastId : i \in 1..new /\ i # new
    BY DEF PlainInv, RowsInv
  <2>3. /\ DOMAIN rows' = DOMAIN rows \cup {new} /\ rows'[new] = r
        /\ \A i \in DOMAIN rows : rows'[i] = rows[i] /\ (i \in late' <=> i \in late)
        /\ new \in late' <=> (r.as = "temp" /\ r.visitor \in moved)
        /\ late' \subseteq late \cup {new}
    BY <2>1, <2>2
  <2> HIDE DEF new, r
  <2>4. RowsInv'
    <3>1. lastId' \in Nat /\ \A i \in DOMAIN rows' : i \in 1..lastId'
      BY <2>1, <2>2, <2>3 DEF PlainInv, RowsInv
    <3>2. \A i \in late' : i \in 1..lastId'
      BY <2>1, <2>2, <2>3 DEF PlainInv, RowsInv
    <3>3. QED
      BY <1>1, <2>3, <3>1, <3>2 DEF PlainInv, RowsInv, r
  <2>5. MovedInv'
    BY <1>1, <2>3 DEF PlainInv, MovedInv, r
  <2>6. \A i \in DOMAIN rows : HasTwin(i) => HasTwin(i)'
    BY <1>2, <2>3 DEF HasTwin
  <2>7. DedupeInv'
    <3> SUFFICES ASSUME NEW q \in Procs, proc'[q].op = "dedupe", NEW i \in proc'[q].dups
                 PROVE  /\ i \in 1..lastId'
                        /\ i \in DOMAIN rows' =>
                             /\ rows'[i].visitor = proc'[q].visitor
                             /\ rows'[i].as = "person" => rows'[i].visitor \in moved'
                             /\ i \in late' \/ EntryOf(rows'[i]) \in withdrawn' \/ HasTwin(i)'
      BY DEF DedupeInv
    <3>1. q # p /\ proc[q] = proc'[q]
      BY <1>2
    <3>2. i \in 1..lastId /\ i # new
      BY <2>2, <3>1 DEF PlainInv, DedupeInv
    <3>3. i \in DOMAIN rows' => i \in DOMAIN rows /\ rows'[i] = rows[i]
      BY <2>3, <3>2
    <3>4. QED
      BY <1>1, <2>1, <2>2, <2>3, <2>6, <3>1, <3>2, <3>3 DEF PlainInv, DedupeInv
  <2>8. \/ Entries' = Entries
        \/ Entries' = Entries \cup {EntryOf(r)}
    <3> DEFINE kept == DOMAIN rows \ late
    <3>1. Entries = {EntryOf(rows[i]) : i \in kept}
      BY DEF Entries, Plain
    <3>2. \A i \in kept : rows'[i] = rows[i]
      BY <2>3
    <3>3. DOMAIN rows' \ late' = IF new \in late' THEN kept ELSE kept \cup {new}
      BY <2>2, <2>3
    <3>4. Entries' = {EntryOf(rows'[i]) : i \in DOMAIN rows' \ late'}
      BY <1>1 DEF Entries, Plain, EntryOf
    <3>5. QED
      BY <2>3, <3>1, <3>2, <3>3, <3>4 DEF EntryOf
  <2>9. QED
    BY <1>1, <1>2, <1>3, <2>4, <2>5, <2>7, <2>8 DEF StoreInv, PlainInv, r
<1>6. QED
  BY <1>4, <1>5

LEMMA TagStep ==
    ASSUME PlainInv, Plain, proc = [p \in Procs |-> proc[p]], NEW p \in Procs, CreateTag(p)
    PROVE  StoreInv' /\ Entries' = Entries /\ withdrawn' = withdrawn
<1>1. UNCHANGED <<scene, rows, lastId, withdrawn, moved, late>> /\ Go(p, [op |-> "idle"])
  BY DEF CreateTag, ghosts, Idle
<1>2. /\ proc' = [q \in Procs |-> proc'[q]]
      /\ proc'[p].op = "idle"
      /\ \A q \in Procs : q # p => proc'[q] = proc[q]
  BY <1>1, Goes
<1>3. RowsInv' /\ MovedInv'
  BY <1>1 DEF PlainInv, RowsInv, MovedInv
<1>4. SaveInv'
  BY <1>1, <1>2 DEF PlainInv, SaveInv
<1>5. \A i : HasTwin(i) => HasTwin(i)'
  BY <1>1, <1>2 DEF HasTwin
<1>6. DedupeInv'
  BY <1>1, <1>2, <1>5 DEF PlainInv, DedupeInv, EntryOf
<1>7. Entries' = Entries
  BY <1>1 DEF Entries, EntryOf
<1>8. QED
  BY <1>1, <1>2, <1>3, <1>4, <1>6, <1>7 DEF StoreInv, PlainInv

(* Rows that go, without a row that changes: what must not go is a twin of  *)
(* a row that stays, unless a deletion has named it.                        *)
LEMMA RowsGo ==
    ASSUME PlainInv, Plain, NEW S, rows' = Without(S),
           UNCHANGED <<scene, lastId, moved, late>>, withdrawn \subseteq withdrawn',
           proc' = [q \in Procs |-> proc'[q]],
           \A q \in Procs : proc'[q].op = "dedupe" =>
               /\ proc[q].op = "dedupe" /\ proc'[q].visitor = proc[q].visitor
               /\ proc'[q].dups \subseteq proc[q].dups,
           \A q \in Procs : proc'[q].op = "dedupe" \/ proc'[q] = proc[q] \/ proc'[q].op = "idle",
           \A j \in S \cap DOMAIN rows :
               \/ rows[j].as = "temp"
               \/ EntryOf(rows[j]) \in withdrawn'
               \/ \E q \in Procs : proc[q].op = "dedupe" /\ j \in proc[q].dups
    PROVE  StoreInv'
<1>1. DOMAIN rows' = DOMAIN rows \ S /\ \A i \in DOMAIN rows' : rows'[i] = rows[i]
  <2>1. RowsInv
    BY DEF PlainInv
  <2>2. /\ DOMAIN Without(S) = DOMAIN rows \ S
        /\ \A i \in DOMAIN rows \ S : Without(S)[i] = rows[i]
    BY <2>1, NothingFollows
  <2>3. QED
    BY <2>2
<1>2. RowsInv' /\ MovedInv'
  BY <1>1 DEF PlainInv, RowsInv, MovedInv
<1>3. SaveInv'
  BY DEF PlainInv, SaveInv
<1>4. \A i \in DOMAIN rows' : HasTwin(i) => HasTwin(i)' \/ EntryOf(rows[i]) \in withdrawn'
  BY <1>1 DEF HasTwin, EntryOf
<1>5. DedupeInv'
  <2> SUFFICES ASSUME NEW q \in Procs, proc'[q].op = "dedupe", NEW i \in proc'[q].dups
               PROVE  /\ i \in 1..lastId'
                      /\ i \in DOMAIN rows' =>
                           /\ rows'[i].visitor = proc'[q].visitor
                           /\ rows'[i].as = "person" => rows'[i].visitor \in moved'
                           /\ i \in late' \/ EntryOf(rows'[i]) \in withdrawn' \/ HasTwin(i)'
    BY DEF DedupeInv
  <2>1. proc[q].op = "dedupe" /\ i \in proc[q].dups /\ proc'[q].visitor = proc[q].visitor
    OBVIOUS
  <2>2. /\ i \in 1..lastId
        /\ i \in DOMAIN rows =>
               /\ rows[i].visitor = proc[q].visitor
               /\ rows[i].as = "person" => rows[i].visitor \in moved
               /\ i \in late \/ EntryOf(rows[i]) \in withdrawn \/ HasTwin(i)
    BY <2>1 DEF PlainInv, DedupeInv
  <2>3. CASE i \in DOMAIN rows'
    <3>1. i \in DOMAIN rows /\ rows'[i] = rows[i] /\ EntryOf(rows'[i]) = EntryOf(rows[i])
      BY <1>1, <2>3
    <3>2. i \in late' \/ EntryOf(rows'[i]) \in withdrawn' \/ HasTwin(i)'
      BY <1>4, <2>2, <2>3, <3>1
    <3>3. QED
      BY <2>1, <2>2, <3>1, <3>2
  <2>4. QED
    BY <2>2, <2>3
<1>6. QED
  BY <1>2, <1>3, <1>5 DEF StoreInv, PlainInv

LEMMA DeleteStep ==
    ASSUME PlainInv, Plain, proc = [p \in Procs |-> proc[p]], NEW p \in Procs,
           NEW i \in DOMAIN rows, Delete(p, i)
    PROVE  /\ StoreInv'
           /\ withdrawn' = withdrawn \cup {EntryOf(rows[i])}
           /\ Entries' \subseteq Entries /\ Entries \ Entries' \subseteq withdrawn'
<1>1. /\ rows' = Without({i}) /\ proc' = proc
      /\ withdrawn' = withdrawn \cup {EntryOf(rows[j]) : j \in Cascade({i})}
      /\ UNCHANGED <<scene, lastId, moved, late>>
  BY DEF Delete
<1>2. Cascade({i}) = {i}
  <2>1. RowsInv
    BY DEF PlainInv
  <2>2. Cascade({i}) = {i} \cap DOMAIN rows
    BY <2>1, NothingFollows
  <2>3. QED
    BY <2>2
<1>3. withdrawn' = withdrawn \cup {EntryOf(rows[i])}
  BY <1>1, <1>2
<1>4. StoreInv'
  BY <1>1, <1>3, RowsGo
<1>5. DOMAIN rows' = DOMAIN rows \ {i} /\ \A j \in DOMAIN rows' : rows'[j] = rows[j]
  BY <1>1, NothingFollows DEF PlainInv
<1>6. Entries' \subseteq Entries /\ Entries \ Entries' \subseteq withdrawn'
  <2>1. Entries = {EntryOf(rows[j]) : j \in DOMAIN rows \ late}
    BY DEF Entries, Plain
  <2>2. Entries' = {EntryOf(rows'[j]) : j \in DOMAIN rows' \ late'}
    BY <1>1 DEF Entries, Plain, EntryOf
  <2>3. \A j \in DOMAIN rows' : EntryOf(rows'[j]) = EntryOf(rows[j])
    BY <1>5
  <2>4. QED
    BY <1>1, <1>3, <1>5, <2>1, <2>2, <2>3
<1>7. QED
  BY <1>3, <1>4, <1>6

LEMMA LoginStep ==
    ASSUME PlainInv, Plain, proc = [p \in Procs |-> proc[p]], NEW p \in Procs,
           NEW v \in Visitors, BeginLogin(p, v)
    PROVE  StoreInv' /\ Entries' = Entries /\ withdrawn' = withdrawn
<1> DEFINE req == [op |-> "dedupe", visitor |-> v, dups |-> Duplicates(v)]
<1>1. /\ UNCHANGED <<scene, rows, lastId, withdrawn, moved, late>> /\ Go(p, req)
      /\ proc[p].op = "idle"
  BY DEF BeginLogin, ghosts, Free, Idle
<1>2. /\ proc' = [q \in Procs |-> proc'[q]]
      /\ proc'[p].op = "dedupe" /\ proc'[p].visitor = v /\ proc'[p].dups = Duplicates(v)
      /\ \A q \in Procs : q # p => proc'[q] = proc[q]
  <2>1. req.op = "dedupe" /\ req.visitor = v /\ req.dups = Duplicates(v)
    OBVIOUS
  <2> HIDE DEF req
  <2>2. QED
    BY <1>1, <2>1, Goes
<1>3. RowsInv' /\ MovedInv'
  BY <1>1 DEF PlainInv, RowsInv, MovedInv
<1>4. SaveInv'
  BY <1>1, <1>2 DEF PlainInv, SaveInv
<1>5. \A j \in Duplicates(v) : j \in DOMAIN rows /\ rows[j].as = "temp" /\ rows[j].visitor = v
  BY DEF Duplicates, Owned
<1>6. \A i \in DOMAIN rows : HasTwin(i) => HasTwin(i)'
  BY <1>1, <1>2, <1>5 DEF HasTwin
<1>7. \A i \in Duplicates(v) : i \in late \/ EntryOf(rows[i]) \in withdrawn \/ HasTwin(i)'
  <2> SUFFICES ASSUME NEW i \in Duplicates(v), i \notin late
               PROVE  HasTwin(i)'
    OBVIOUS
  <2>1. PICK j \in DOMAIN rows : /\ rows[j].visitor = v /\ rows[j].as = "person"
                                 /\ rows[i].content = rows[j].content
    BY DEF Duplicates, Owned
  <2>2. i \in DOMAIN rows /\ rows[i].as = "temp" /\ rows[i].visitor = v /\ v \notin moved
    BY <1>5 DEF PlainInv, MovedInv
  <2>3. j \notin late
    BY <2>1, <2>2 DEF PlainInv, MovedInv
  <2>4. \A q \in Procs : proc'[q].op = "dedupe" => j \notin proc'[q].dups
    BY <1>2, <1>5, <2>1, <2>2 DEF PlainInv, DedupeInv
  <2>5. QED
    BY <1>1, <2>1, <2>2, <2>3, <2>4 DEF HasTwin
<1>8. DedupeInv'
  <2> SUFFICES ASSUME NEW q \in Procs, proc'[q].op = "dedupe", NEW i \in proc'[q].dups
               PROVE  /\ i \in 1..lastId'
                      /\ i \in DOMAIN rows' =>
                           /\ rows'[i].visitor = proc'[q].visitor
                           /\ rows'[i].as = "person" => rows'[i].visitor \in moved'
                           /\ i \in late' \/ EntryOf(rows'[i]) \in withdrawn' \/ HasTwin(i)'
    BY DEF DedupeInv
  <2>1. CASE q = p
    BY <1>1, <1>2, <1>5, <1>7, <2>1 DEF PlainInv, RowsInv, EntryOf
  <2>2. CASE q # p
    BY <1>1, <1>2, <1>6, <2>2 DEF PlainInv, DedupeInv, EntryOf
  <2>3. QED
    BY <2>1, <2>2
<1>9. Entries' = Entries
  BY <1>1 DEF Entries, EntryOf
<1>10. QED
  BY <1>1, <1>2, <1>3, <1>4, <1>8, <1>9 DEF StoreInv, PlainInv

LEMMA DropStep ==
    ASSUME PlainInv, Plain, proc = [p \in Procs |-> proc[p]], NEW p \in Procs,
           NEW i \in Ids, DropDuplicate(p, i)
    PROVE  /\ StoreInv' /\ withdrawn' = withdrawn
           /\ Entries' \subseteq Entries /\ Entries \ Entries' \subseteq withdrawn'
<1> DEFINE req == [op |-> "dedupe", visitor |-> proc[p].visitor, dups |-> proc[p].dups \ {i}]
<1>1. /\ proc[p].op = "dedupe" /\ i \in proc[p].dups
      /\ rows' = Without({i})
      /\ UNCHANGED <<scene, lastId, withdrawn, moved, late>>
      /\ Go(p, req)
  BY DEF DropDuplicate, ghosts
<1>2. /\ proc' = [q \in Procs |-> proc'[q]]
      /\ proc'[p] = req
      /\ \A q \in Procs : q # p => proc'[q] = proc[q]
  <2> HIDE DEF req
  <2>1. QED
    BY <1>1, Goes
<1>3. \A q \in Procs : proc'[q].op = "dedupe" =>
          /\ proc[q].op = "dedupe" /\ proc'[q].visitor = proc[q].visitor
          /\ proc'[q].dups \subseteq proc[q].dups
  BY <1>1, <1>2
<1>4. \A q \in Procs : proc'[q].op = "dedupe" \/ proc'[q] = proc[q] \/ proc'[q].op = "idle"
  BY <1>1, <1>2
<1>5. StoreInv'
  BY <1>1, <1>2, <1>3, <1>4, RowsGo
<1>6. DOMAIN rows' = DOMAIN rows \ {i} /\ \A j \in DOMAIN rows' : rows'[j] = rows[j]
  <2>1. RowsInv
    BY DEF PlainInv
  <2>2. /\ DOMAIN Without({i}) = DOMAIN rows \ {i}
        /\ \A j \in DOMAIN rows \ {i} : Without({i})[j] = rows[j]
    BY <2>1, NothingFollows
  <2>3. QED
    BY <1>1, <2>2
<1>7. Entries = {EntryOf(rows[j]) : j \in DOMAIN rows \ late}
  BY DEF Entries, Plain
<1>8. Entries' = {EntryOf(rows[j]) : j \in (DOMAIN rows \ {i}) \ late}
  <2>1. Entries' = {EntryOf(rows'[j]) : j \in DOMAIN rows' \ late'}
    BY <1>1 DEF Entries, Plain, EntryOf
  <2>2. \A j \in DOMAIN rows' : EntryOf(rows'[j]) = EntryOf(rows[j])
    BY <1>6
  <2>3. QED
    BY <1>1, <1>6, <2>1, <2>2
<1>9. i \in DOMAIN rows \ late => EntryOf(rows[i]) \in withdrawn \cup Entries'
  <2> SUFFICES ASSUME i \in DOMAIN rows \ late, EntryOf(rows[i]) \notin withdrawn
               PROVE  EntryOf(rows[i]) \in Entries'
    OBVIOUS
  <2>1. HasTwin(i)
    BY <1>1 DEF PlainInv, DedupeInv
  <2>2. PICK j \in DOMAIN rows : /\ EntryOf(rows[j]) = EntryOf(rows[i])
                                 /\ j \notin late /\ j # i
    BY <1>1, <2>1 DEF HasTwin, EntryOf
  <2>3. QED
    BY <1>8, <2>2
<1>10. QED
  BY <1>1, <1>5, <1>7, <1>8, <1>9

LEMMA MoveStep ==
    ASSUME PlainInv, Plain, proc = [p \in Procs |-> proc[p]], NEW p \in Procs, MoveRows(p)
    PROVE  StoreInv' /\ Entries' = Entries /\ withdrawn' = withdrawn
<1> DEFINE v == proc[p].visitor
<1>1. UNCHANGED <<scene, lastId, withdrawn, late>> /\ proc[p].op = "dedupe" /\ proc[p].dups = {}
  BY DEF MoveRows
<1>2. CASE Duplicates(v) # {}
  <2>1. Go(p, [op |-> "idle"]) /\ UNCHANGED <<rows, moved>>
    BY <1>2 DEF MoveRows, Idle
  <2>2. /\ proc' = [q \in Procs |-> proc'[q]]
        /\ proc'[p].op = "idle"
        /\ \A q \in Procs : q # p => proc'[q] = proc[q]
    BY <2>1, Goes
  <2>3. RowsInv' /\ MovedInv'
    BY <1>1, <2>1 DEF PlainInv, RowsInv, MovedInv
  <2>4. SaveInv'
    BY <2>1, <2>2 DEF PlainInv, SaveInv
  <2>5. \A i : HasTwin(i) => HasTwin(i)'
    BY <1>1, <2>1, <2>2 DEF HasTwin
  <2>6. DedupeInv'
    BY <1>1, <2>1, <2>2, <2>5 DEF PlainInv, DedupeInv, EntryOf
  <2>7. Entries' = Entries
    BY <1>1, <2>1 DEF Entries, EntryOf
  <2>8. QED
    BY <1>1, <2>2, <2>3, <2>4, <2>6, <2>7 DEF StoreInv, PlainInv
<1>3. CASE Duplicates(v) = {}
  <2>1. /\ rows' = [i \in DOMAIN rows |-> IF i \in Owned(v, "temp")
                        THEN [rows[i] EXCEPT !.as = "person"] ELSE rows[i]]
        /\ moved' = moved \cup {v}
        /\ Go(p, [op |-> "drop", visitor |-> v])
    BY <1>3 DEF MoveRows
  <2>2. /\ proc' = [q \in Procs |-> proc'[q]]
        /\ proc'[p].op = "drop" /\ proc'[p].visitor = v
        /\ \A q \in Procs : q # p => proc'[q] = proc[q]
    BY <2>1, Goes
  <2>3. \A i : i \in Owned(v, "temp") <=>
                   i \in DOMAIN rows /\ rows[i].visitor = v /\ rows[i].as = "temp"
    BY DEF Owned
  <2>4. /\ DOMAIN rows' = DOMAIN rows
        /\ \A i \in DOMAIN rows :
               /\ rows'[i] \in Row
               /\ rows'[i].visitor = rows[i].visitor /\ rows'[i].content = rows[i].content
               /\ rows'[i].parent = rows[i].parent
               /\ i \in Owned(v, "temp") => rows'[i].as = "person"
               /\ i \notin Owned(v, "temp") => rows'[i] = rows[i]
    BY <2>1 DEF PlainInv, RowsInv, Row
  <2>5. RowsInv'
    BY <1>1, <2>4 DEF PlainInv, RowsInv
  <2>6. MovedInv'
    <3> SUFFICES ASSUME NEW i \in DOMAIN rows
                 PROVE  /\ i \in late => rows'[i].visitor \in moved'
                        /\ rows'[i].as = "temp" /\ rows'[i].visitor \in moved' => i \in late
      BY <1>1, <2>4 DEF MovedInv
    <3>1. /\ i \in late => rows[i].visitor \in moved
          /\ rows[i].as = "temp" /\ rows[i].visitor \in moved => i \in late
      BY DEF PlainInv, MovedInv
    <3> HIDE DEF v
    <3>2. rows'[i].visitor = rows[i].visitor /\ moved' = moved \cup {v}
      BY <2>1, <2>4
    <3>3. CASE i \in Owned(v, "temp")
      <4>1. rows[i].visitor = v /\ rows'[i].as = "person"
        BY <2>3, <2>4, <3>3
      <4>2. QED
        BY <3>2, <4>1
    <3>4. CASE i \notin Owned(v, "temp")
      <4>1. rows'[i].as = rows[i].as
        BY <2>4, <3>4
      <4>2. ~(rows[i].visitor = v /\ rows[i].as = "temp")
        BY <2>3, <3>4
      <4>3. QED
        BY <3>1, <3>2, <4>1, <4>2
    <3>5. QED
      BY <3>3, <3>4
  <2>7. SaveInv'
    BY <2>1, <2>2 DEF PlainInv, SaveInv
  <2>8. \A i \in DOMAIN rows : HasTwin(i) => i \notin Owned(v, "temp") /\ HasTwin(i)'
    <3> SUFFICES ASSUME NEW i \in DOMAIN rows, HasTwin(i)
                 PROVE  i \notin Owned(v, "temp") /\ HasTwin(i)'
      OBVIOUS
    <3>1. PICK j \in DOMAIN rows :
              /\ rows[j].visitor = rows[i].visitor /\ rows[j].content = rows[i].content
              /\ rows[j].as = "person" /\ rows[i].as = "temp"
              /\ j \notin late
              /\ \A q \in Procs : proc[q].op = "dedupe" => j \notin proc[q].dups
      BY DEF HasTwin
    <3>2. i \notin Owned(v, "temp") /\ j \notin Owned(v, "temp")
      BY <1>3, <3>1 DEF Duplicates, Owned
    <3>3. QED
      BY <1>1, <2>2, <2>4, <3>1, <3>2 DEF HasTwin
  <2>9. DedupeInv'
    <3> SUFFICES ASSUME NEW q \in Procs, proc'[q].op = "dedupe", NEW i \in proc'[q].dups
                 PROVE  /\ i \in 1..lastId'
                        /\ i \in DOMAIN rows' =>
                             /\ rows'[i].visitor = proc'[q].visitor
                             /\ rows'[i].as = "person" => rows'[i].visitor \in moved'
                             /\ i \in late' \/ EntryOf(rows'[i]) \in withdrawn' \/ HasTwin(i)'
      BY DEF DedupeInv
    <3>1. q # p /\ proc[q] = proc'[q]
      BY <2>2
    <3>2. /\ i \in 1..lastId
          /\ i \in DOMAIN rows =>
                 /\ rows[i].visitor = proc[q].visitor
                 /\ rows[i].as = "person" => rows[i].visitor \in moved
                 /\ i \in late \/ EntryOf(rows[i]) \in withdrawn \/ HasTwin(i)
      BY <3>1 DEF PlainInv, DedupeInv
    <3>3. CASE i \in DOMAIN rows
      <4>1. EntryOf(rows'[i]) = EntryOf(rows[i])
        BY <2>4, <3>3 DEF EntryOf
      <4>2. rows'[i].as = "person" => rows'[i].visitor \in moved'
        BY <2>1, <2>3, <2>4, <3>2, <3>3
      <4>3. QED
        BY <1>1, <2>4, <2>8, <3>1, <3>2, <3>3, <4>1, <4>2
    <3>4. QED
      BY <1>1, <2>4, <3>2, <3>3
  <2>10. Entries' = Entries
    <3>1. Entries = {EntryOf(rows[j]) : j \in DOMAIN rows \ late}
      BY DEF Entries, Plain
    <3>2. Entries' = {EntryOf(rows'[j]) : j \in DOMAIN rows' \ late'}
      BY <1>1 DEF Entries, Plain, EntryOf
    <3>3. \A j \in DOMAIN rows : EntryOf(rows'[j]) = EntryOf(rows[j])
      BY <2>4 DEF EntryOf
    <3>4. QED
      BY <1>1, <2>4, <3>1, <3>2, <3>3
  <2>11. QED
    BY <1>1, <2>2, <2>5, <2>6, <2>7, <2>9, <2>10 DEF StoreInv, PlainInv
<1>4. QED
  BY <1>2, <1>3

LEMMA UserStep ==
    ASSUME PlainInv, Plain, proc = [p \in Procs |-> proc[p]], NEW p \in Procs, DropUser(p)
    PROVE  StoreInv' /\ Entries' = Entries /\ withdrawn' = withdrawn
<1> DEFINE v == proc[p].visitor
<1>1. /\ proc[p].op = "drop" /\ rows' = Without(Owned(v, "temp"))
      /\ UNCHANGED <<scene, lastId, withdrawn, moved, late>>
      /\ Go(p, [op |-> "idle"])
  BY DEF DropUser, ghosts, Idle
<1>2. /\ proc' = [q \in Procs |-> proc'[q]]
      /\ proc'[p].op = "idle"
      /\ \A q \in Procs : q # p => proc'[q] = proc[q]
  BY <1>1, Goes
<1>3. \A j \in Owned(v, "temp") : j \in DOMAIN rows /\ rows[j].as = "temp" /\ j \in late
  BY <1>1 DEF Owned, PlainInv, SaveInv, MovedInv
<1>4. StoreInv'
  BY <1>1, <1>2, <1>3, RowsGo
<1>5. DOMAIN rows' = DOMAIN rows \ Owned(v, "temp") /\ \A j \in DOMAIN rows' : rows'[j] = rows[j]
  <2>1. RowsInv
    BY DEF PlainInv
  <2>2. /\ DOMAIN Without(Owned(v, "temp")) = DOMAIN rows \ Owned(v, "temp")
        /\ \A j \in DOMAIN rows \ Owned(v, "temp") : Without(Owned(v, "temp"))[j] = rows[j]
    BY <2>1, NothingFollows
  <2>3. QED
    BY <1>1, <2>2
<1>6. Entries' = Entries
  <2>1. Entries = {EntryOf(rows[j]) : j \in DOMAIN rows \ late}
    BY DEF Entries, Plain
  <2>2. Entries' = {EntryOf(rows'[j]) : j \in DOMAIN rows' \ late'}
    BY <1>1 DEF Entries, Plain, EntryOf
  <2>3. \A j \in DOMAIN rows' : EntryOf(rows'[j]) = EntryOf(rows[j])
    BY <1>5
  <2>4. DOMAIN rows' \ late' = DOMAIN rows \ late
    BY <1>1, <1>3, <1>5
  <2>5. QED
    BY <2>1, <2>2, <2>3, <2>4, <1>5
<1>7. QED
  BY <1>1, <1>4, <1>6

(* Every step leaves the scene, and sets what one request does next. *)
LEMMA Frame ==
    ASSUME Next, ~OtherGroup
    PROVE  scene' = scene /\ \E p \in Procs : proc' = proc \/ \E request : Go(p, request)
<1>1. PICK p \in Procs :
          \/ \E v \in Visitors, as \in {"temp", "person"}, c \in Contents, parent \in 0..MaxRows :
                 BeginCreate(p, v, as, c, parent)
          \/ \E i \in DOMAIN rows : Delete(p, i)
          \/ \E v \in Visitors : BeginLogin(p, v)
          \/ Block(p) \/ Unblock(p) \/ Approve(p)
          \/ \E i \in DOMAIN rows : BeginToggle(p, i)
          \/ Work(p)
  BY DEF Next
<1> DEFINE Framed == scene' = scene /\ (proc' = proc \/ \E request : Go(p, request))
<1>2. ASSUME NEW v, NEW as, NEW c, NEW parent, BeginCreate(p, v, as, c, parent) PROVE Framed
  <2>1. PICK node \in ContentNode(c), approved \in ApproveOnCreate : \E request : Go(p, request)
    BY <1>2 DEF BeginCreate
  <2>2. scene' = scene
    BY <1>2 DEF BeginCreate
  <2>3. QED
    BY <2>1, <2>2
<1>3. ASSUME NEW i, Delete(p, i) PROVE Framed
  BY <1>3 DEF Delete
<1>4. ASSUME NEW v, BeginLogin(p, v) PROVE Framed
  BY <1>4 DEF BeginLogin
<1>5. Block(p) \/ Unblock(p) \/ Approve(p) => Framed
  BY DEF Block, Unblock, Approve
<1>6. ASSUME NEW i, BeginToggle(p, i) PROVE Framed
  BY <1>6 DEF BeginToggle
<1>7. Save(p) => Framed
  <2> SUFFICES ASSUME Save(p) PROVE Framed
    OBVIOUS
  <2>1. CASE Allowed(proc[p].row, DOMAIN rows) /\ lastId < MaxRows
    <3>1. Go(p, IF proc[p].isNew THEN [op |-> "tag", approved |-> proc[p].row.approved] ELSE Idle)
      BY <2>1 DEF Save
    <3>2. QED
      BY <3>1 DEF Save
  <2>2. CASE ~(Allowed(proc[p].row, DOMAIN rows) /\ lastId < MaxRows)
    BY <2>2 DEF Save
  <2>3. QED
    BY <2>1, <2>2
<1>8. CreateTag(p) => Framed
  BY DEF CreateTag
<1>9. ASSUME NEW i, DropDuplicate(p, i) PROVE Framed
  BY <1>9 DEF DropDuplicate
<1>10. MoveRows(p) => Framed
  <2> SUFFICES ASSUME MoveRows(p) PROVE Framed
    OBVIOUS
  <2>1. CASE Duplicates(proc[p].visitor) = {}
    BY <2>1 DEF MoveRows
  <2>2. CASE Duplicates(proc[p].visitor) # {}
    BY <2>2 DEF MoveRows
  <2>3. QED
    BY <2>1, <2>2
<1>11. DropUser(p) \/ Decide(p) \/ SaveToggle(p) => Framed
  BY DEF DropUser, Decide, SaveToggle
<1>12. Framed
  <2> HIDE DEF Framed
  <2>1. Work(p) => Framed
    BY <1>7, <1>8, <1>9, <1>10, <1>11 DEF Work
  <2>2. QED
    BY <1>1, <1>2, <1>3, <1>4, <1>5, <1>6, <2>1
<1>13. QED
  BY <1>12

-----------------------------------------------------------------------------
(* Every step of the server is a step of the ledger, or none, whether or    *)
(* not anybody agrees.                                                      *)
LEMMA LedgerStep ==
    ASSUME StoreInv, [Next]_vars
    PROVE  StoreInv' /\ [Ledger!Next]_(Ledger!vars)
<1>1. CASE UNCHANGED vars \/ OtherGroup
  <2>1. UNCHANGED <<scene, rows, lastId, proc, withdrawn, moved, late>>
    BY <1>1, OtherGroupFrame DEF vars
  <2>2. Plain' <=> Plain
    BY <2>1 DEF Plain
  <2>3. \A i : HasTwin(i)' <=> HasTwin(i)
    BY <2>1 DEF HasTwin
  <2>4. PlainInv' <=> PlainInv
    BY <2>1, <2>3 DEF PlainInv, RowsInv, MovedInv, SaveInv, DedupeInv, EntryOf
  <2>5. Entries' = Entries /\ Named' = Named
    BY <2>1 DEF Entries, Named, EntryOf
  <2>6. QED
    BY <2>1, <2>2, <2>4, <2>5 DEF StoreInv, Ledger!vars
<1>2. CASE ~Plain /\ Next /\ ~OtherGroup
  <2>1. scene' = scene
    BY <1>2, Frame
  <2>2. proc' = [p \in Procs |-> proc'[p]]
    <3>1. proc = [p \in Procs |-> proc[p]]
      BY DEF StoreInv
    <3>2. PICK p \in Procs : proc' = proc \/ \E request : Go(p, request)
      BY <1>2, Frame
    <3>3. QED
      BY <3>1, <3>2, Goes
  <2>3. ~Plain' /\ Entries' = Entries /\ Named' = Named
    BY <1>2, <2>1 DEF Plain, Entries, Named
  <2>4. QED
    BY <2>2, <2>3 DEF StoreInv, Ledger!vars
<1>3. CASE Plain /\ Next /\ ~OtherGroup
  <2>1. PlainInv /\ Plain /\ proc = [p \in Procs |-> proc[p]]
    BY <1>3 DEF StoreInv
  <2>2. scene' = scene
    BY <1>3, Frame
  <2>3. Named = withdrawn /\ Named' = withdrawn'
    BY <2>1, <2>2 DEF Named, Plain
  <2>4. ASSUME StoreInv', Entries' = Entries, withdrawn' = withdrawn
        PROVE  StoreInv' /\ [Ledger!Next]_(Ledger!vars)
    BY <2>3, <2>4 DEF Ledger!vars
  <2>5. PICK p \in Procs :
            \/ \E v \in Visitors, as \in {"temp", "person"}, c \in Contents, parent \in 0..MaxRows :
                   BeginCreate(p, v, as, c, parent)
            \/ \E i \in DOMAIN rows : Delete(p, i)
            \/ \E v \in Visitors : BeginLogin(p, v)
            \/ Block(p) \/ Unblock(p) \/ Approve(p)
            \/ \E i \in DOMAIN rows : BeginToggle(p, i)
            \/ Work(p)
    BY <1>3 DEF Next
  <2>6. ASSUME NEW v \in Visitors, NEW as \in {"temp", "person"}, NEW c \in Contents,
               NEW parent \in 0..MaxRows, BeginCreate(p, v, as, c, parent)
        PROVE  StoreInv' /\ [Ledger!Next]_(Ledger!vars)
    <3>1. UNCHANGED <<scene, rows, withdrawn, late>>
      BY <2>6 DEF BeginCreate, ghosts
    <3>2. Entries' = Entries
      BY <3>1 DEF Entries, EntryOf
    <3>3. StoreInv'
      BY <2>1, <2>6, CreateStep
    <3>4. QED
      BY <2>4, <3>1, <3>2, <3>3
  <2>7. ASSUME NEW i \in DOMAIN rows, Delete(p, i)
        PROVE  StoreInv' /\ [Ledger!Next]_(Ledger!vars)
    <3>1. /\ StoreInv' /\ withdrawn' = withdrawn \cup {EntryOf(rows[i])}
          /\ Entries' \subseteq Entries /\ Entries \ Entries' \subseteq withdrawn'
      BY <2>1, <2>7, DeleteStep
    <3>2. {EntryOf(rows[i])} \in SUBSET (Visitors \X Contents)
      BY <2>1 DEF PlainInv, RowsInv, Row, EntryOf
    <3>3. QED
      BY <2>3, <3>1, <3>2 DEF Ledger!Next, Ledger!Withdraw, Ledger!Entry
  <2>8. ASSUME NEW v \in Visitors, BeginLogin(p, v)
        PROVE  StoreInv' /\ [Ledger!Next]_(Ledger!vars)
    BY <2>1, <2>4, <2>8, LoginStep
  <2>9. ~(Block(p) \/ Unblock(p) \/ Approve(p) \/ \E i \in DOMAIN rows : BeginToggle(p, i))
    BY <2>1 DEF Block, Unblock, Approve, BeginToggle, Plain
  <2>10. ~(Decide(p) \/ SaveToggle(p))
    BY <2>1 DEF PlainInv, SaveInv, Decide, SaveToggle
  <2>11. ASSUME Save(p)
         PROVE  StoreInv' /\ [Ledger!Next]_(Ledger!vars)
    <3>1. /\ StoreInv' /\ withdrawn' = withdrawn
          /\ \/ Entries' = Entries
             \/ Entries' = Entries \cup {EntryOf(proc[p].row)}
      BY <2>1, <2>11, SaveStep
    <3>2. EntryOf(proc[p].row) \in Visitors \X Contents
      BY <2>1, <2>11 DEF Save, PlainInv, SaveInv, Row, EntryOf
    <3>3. QED
      BY <2>3, <2>4, <3>1, <3>2 DEF Ledger!Next, Ledger!React, Ledger!Entry
  <2>12. ASSUME CreateTag(p)
         PROVE  StoreInv' /\ [Ledger!Next]_(Ledger!vars)
    BY <2>1, <2>4, <2>12, TagStep
  <2>13. ASSUME NEW i \in Ids, DropDuplicate(p, i)
         PROVE  StoreInv' /\ [Ledger!Next]_(Ledger!vars)
    <3>1. /\ StoreInv' /\ withdrawn' = withdrawn
          /\ Entries' \subseteq Entries /\ Entries \ Entries' \subseteq withdrawn'
      BY <2>1, <2>13, DropStep
    <3>2. Ledger!Withdraw({})
      BY <2>3, <3>1 DEF Ledger!Withdraw
    <3>3. QED
      BY <3>1, <3>2 DEF Ledger!Next, Ledger!Entry
  <2>14. ASSUME MoveRows(p)
         PROVE  StoreInv' /\ [Ledger!Next]_(Ledger!vars)
    BY <2>1, <2>4, <2>14, MoveStep
  <2>15. ASSUME DropUser(p)
         PROVE  StoreInv' /\ [Ledger!Next]_(Ledger!vars)
    BY <2>1, <2>4, <2>15, UserStep
  <2>16. Work(p) => StoreInv' /\ [Ledger!Next]_(Ledger!vars)
    BY <2>10, <2>11, <2>12, <2>13, <2>14, <2>15 DEF Work
  <2>17. QED
    BY <2>5, <2>6, <2>7, <2>8, <2>9, <2>16
<1>4. QED
  BY <1>1, <1>2, <1>3

(* Whatever requests are made at once, and however often a login fails and  *)
(* is repeated: where nobody agrees with anybody, a visitor's reaction that *)
(* counts leaves the table only after a deletion has named it.  What a      *)
(* temporary user posts after a login has moved his reactions does not      *)
(* count, and a deletion need not take the reaction, which another row may  *)
(* hold (utils.py deleteInteraction, userutils.py convertUser).             *)
THEOREM StoreImplementsLedger == Spec => ImplementsLedger
<1>1. Init => StoreInv
  BY Start
<1>2. Init => Ledger!Init
  BY DEF Init, Ledger!Init, Entries, Named
<1>3. StoreInv /\ [Next]_vars => StoreInv' /\ [Ledger!Next]_(Ledger!vars)
  BY LedgerStep
<1>4. QED
  BY <1>1, <1>2, <1>3, PTL DEF Spec, ImplementsLedger, Ledger!Spec
=============================================================================
