-------------------------- MODULE InteractionStore --------------------------
(***************************************************************************)
(* The table of interactions and the requests that change it: reactions,   *)
(* +1s, deletions, the conversion of a temporary user at login, and the    *)
(* moderator's decisions about one reaction.                               *)
(*                                                                         *)
(* In production every read of a request goes to the replica, in the one   *)
(* snapshot its connection keeps, and every write to the master, where it  *)
(* is committed by itself (Django 1.5, no transaction middleware).  So a   *)
(* request decides in one step, on a state that was current once, and then *)
(* writes step by step: an action per write.                               *)
(*                                                                         *)
(* Abstracted: one page, one reaction, kind "tag".  A visitor has a        *)
(* temporary user and a person to log in as.  In a serial scene requests   *)
(* come one at a time, and the replica has caught up when the next comes.  *)
(***************************************************************************)
EXTENDS Naturals

CONSTANTS
    Visitors, Contents, Procs,
    MaxRows                     \* bound: interactions ever saved

ASSUME StoreAssumption == MaxRows \in Nat

VARIABLES
    scene,      \* which requests are made, whether one at a time, and what the
                \* group and another one think of the reaction; never changes
    rows,       \* table rb_interaction, by id
    lastId,     \* its auto-increment
    live,       \* visitors whose temporary user exists
    blocked,    \* the reaction's row in BlockedTag
    tag,        \* the reaction's row in AllTag for the page's group
    foreign,    \* and its row there for another group
    proc,       \* the requests being worked on
    withdrawn,  \* history: what deletions have named
    moved,      \* history: visitors whose reactions a login has moved
    late,       \* history: rows a temporary user posted after that
    verdict     \* history: the moderator's last decision carried out

vars == <<scene, rows, lastId, live, blocked, tag, foreign, proc, withdrawn, moved, late,
          verdict>>
ghosts == <<withdrawn, moved, late>>
tagVars == <<blocked, tag, foreign, verdict>>

-----------------------------------------------------------------------------
Ids == 1..MaxRows
Row == [visitor : Visitors, as : {"temp", "person"}, content : Contents,
        parent : 0..MaxRows, approved : BOOLEAN]
Idle == [op |-> "idle"]
Scene == [kind : {"readers", "pictures", "agreeing", "moderated"}, serial : BOOLEAN,
          approving : BOOLEAN,                      \* Group.requires_approval
          shared : BOOLEAN,                         \* whether another group has the reaction
          vouched : {"no", "default", "blessed"}]   \* how the group comes to offer it
TagStates == {"none", "pending", "approved"}
Request ==
    {Idle}
    \cup [op : {"save"}, row : Row, isNew : BOOLEAN]
    \cup [op : {"tag"}, approved : BOOLEAN]
    \cup [op : {"dedupe"}, visitor : Visitors, dups : SUBSET Ids]
    \cup [op : {"drop"}, visitor : Visitors]
    \cup [op : {"toggle"}, id : Ids, row : Row]
    \cup [op : {"decide"}, approved : BOOLEAN, verdict : {"block", "approve", "open"}]

TypeOK ==
    /\ scene \in Scene
    /\ lastId \in 0..MaxRows
    /\ DOMAIN rows \subseteq 1..lastId
    /\ \A i \in DOMAIN rows : rows[i] \in Row
    /\ live \subseteq Visitors /\ moved \subseteq Visitors
    /\ blocked \in BOOLEAN /\ tag \in TagStates
    /\ foreign \in TagStates /\ (foreign # "none" => scene.shared)
    /\ proc \in [Procs -> Request]
    /\ withdrawn \subseteq Visitors \X Contents
    /\ late \subseteq Ids
    /\ verdict \in {"block", "approve", "open"}

Init ==
    /\ scene \in Scene
    /\ scene.approving \/ scene.shared \/ scene.vouched # "no" => scene.kind = "moderated"
    /\ rows = [i \in {} |-> Idle] /\ lastId = 0
    /\ live = Visitors
    /\ blocked = FALSE /\ tag = "none" /\ foreign = "none"
    /\ proc = [p \in Procs |-> Idle]
    /\ withdrawn = {} /\ moved = {} /\ late = {} /\ verdict = "open"

EntryOf(r) == <<r.visitor, r.content>>
(* The unique constraint of the table, for one page, kind and reaction. *)
SameKey(r, s) == r.visitor = s.visitor /\ r.as = s.as /\ r.content = s.content
(* Foreign keys: the user and the parent of a row exist. *)
Allowed(r, others) ==
    /\ r.as = "temp" => r.visitor \in live
    /\ r.parent # 0 => r.parent \in DOMAIN rows
    /\ \A i \in others : ~SameKey(r, rows[i])

(* A deletion takes along the rows whose parent it is, and theirs. *)
Closed(T) == \A j \in DOMAIN rows : rows[j].parent \in T => j \in T
Cascade(S) ==
    {j \in DOMAIN rows : \A T \in SUBSET DOMAIN rows :
        (S \cap DOMAIN rows \subseteq T /\ Closed(T)) => j \in T}
Without(S) == [i \in DOMAIN rows \ Cascade(S) |-> rows[i]]

Free(p) ==
    /\ proc[p] = Idle
    /\ scene.serial => \A q \in Procs : proc[q] = Idle
Go(p, request) == proc' = [proc EXCEPT ![p] = request]

-----------------------------------------------------------------------------
(* createInteraction                                                        *)

(* Mutant: the URL the browser sent. *)
OwnContent(c) == {c}

(* A picture has several URLs; the reaction goes to the content that an     *)
(* interaction of its container already has.                                *)
ContentNode(c) ==
    IF scene.kind = "pictures" /\ DOMAIN rows # {}
        THEN {rows[i].content : i \in DOMAIN rows} ELSE {c}

(* Whether the reaction is checked against the blocked tags: not when the    *)
(* request says it is a default one, nor, in a group that approves           *)
(* reactions, when the group has blessed it.                                 *)
Screened ==
    /\ scene.vouched # "default"
    /\ scene.vouched = "blessed" => ~scene.approving

(* approveOnCreate: such reactions are, and all of a group that approves     *)
(* nothing.  Any other goes by all_tags[0], whichever group's row that is:   *)
(* rows come in an order that each group counts for itself.                  *)
KnownTags == {tag, foreign} \ {"none"}
ApproveOnCreate ==
    IF ~scene.approving \/ ~Screened THEN {TRUE}
    ELSE IF KnownTags = {} THEN {FALSE}
    ELSE {t = "approved" : t \in KnownTags}

(* The reads: token, parent, blocked tags, existing row, known tag.  A      *)
(* request that finds the tag blocked or the row there ends with that.      *)
BeginCreate(p, v, as, c, parent) ==
    /\ Free(p) /\ lastId < MaxRows
    /\ as = "temp" => v \in live
    /\ Screened => ~blocked
    /\ parent # 0 =>
           scene.kind = "agreeing" /\ parent \in DOMAIN rows /\ rows[parent].content = c
    /\ \E node \in ContentNode(c), approved \in ApproveOnCreate :
           LET r == [visitor |-> v, as |-> as, content |-> node, parent |-> parent,
                     approved |-> approved]
           IN  /\ \A i \in DOMAIN rows : ~SameKey(r, rows[i])
               /\ Go(p, [op |-> "save", row |-> r, isNew |-> KnownTags = {}])
    /\ UNCHANGED <<scene, rows, lastId, live, tagVars, ghosts>>

(* Mutant: the id is not taken from the counter. *)
SaveUncounted(p) ==
    /\ proc[p].op = "save"
    /\ LET r == proc[p].row IN
       IF Allowed(r, DOMAIN rows) /\ lastId < MaxRows
       THEN /\ rows' = [i \in DOMAIN rows \cup {lastId + 1} |->
                            IF i = lastId + 1 THEN r ELSE rows[i]]
            /\ Go(p, Idle)
       ELSE Go(p, Idle) /\ UNCHANGED rows
    /\ UNCHANGED <<scene, lastId, live, tagVars, withdrawn, moved, late>>

(* new_interaction.save(); a constraint that fails is an error answer. *)
Save(p) ==
    /\ proc[p].op = "save"
    /\ LET r == proc[p].row IN
       IF Allowed(r, DOMAIN rows) /\ lastId < MaxRows
       THEN /\ lastId' = lastId + 1
            /\ rows' = [i \in DOMAIN rows \cup {lastId + 1} |->
                            IF i = lastId + 1 THEN r ELSE rows[i]]
            /\ late' = IF r.as = "temp" /\ r.visitor \in moved
                       THEN late \cup {lastId + 1} ELSE late
            /\ Go(p, IF proc[p].isNew THEN [op |-> "tag", approved |-> r.approved] ELSE Idle)
       ELSE Go(p, Idle) /\ UNCHANGED <<rows, lastId, late>>
    /\ UNCHANGED <<scene, live, tagVars, withdrawn, moved>>

(* AllTag.objects.create, refused when somebody else of the group was first. *)
CreateTag(p) ==
    /\ proc[p].op = "tag"
    /\ tag' = IF tag # "none" THEN tag ELSE IF proc[p].approved THEN "approved" ELSE "pending"
    /\ Go(p, Idle)
    /\ UNCHANGED <<scene, rows, lastId, live, blocked, foreign, verdict, ghosts>>

-----------------------------------------------------------------------------
(* deleteInteraction, by the user of the row                                *)

Delete(p, i) ==
    /\ Free(p)
    /\ rows[i].as = "temp" => rows[i].visitor \in live
    /\ withdrawn' = withdrawn \cup {EntryOf(rows[j]) : j \in Cascade({i})}
    /\ rows' = Without({i})
    /\ UNCHANGED <<scene, lastId, live, tagVars, proc, moved, late>>

-----------------------------------------------------------------------------
(* convertUser, at the end of a login                                       *)

Owned(v, as) == {i \in DOMAIN rows : rows[i].visitor = v /\ rows[i].as = as}
(* Mutant: of an interaction any other on the page is a duplicate. *)
AnyDuplicates(v) == {i \in Owned(v, "temp") : Owned(v, "person") # {}}

Duplicates(v) ==
    {i \in Owned(v, "temp") : \E j \in Owned(v, "person") : rows[i].content = rows[j].content}

BeginLogin(p, v) ==
    /\ Free(p) /\ scene.kind # "moderated"
    /\ v \in live
    /\ Go(p, [op |-> "dedupe", visitor |-> v, dups |-> Duplicates(v)])
    /\ UNCHANGED <<scene, rows, lastId, live, tagVars, ghosts>>

(* new_row.delete() *)
DropDuplicate(p, i) ==
    /\ proc[p].op = "dedupe" /\ i \in proc[p].dups
    /\ rows' = Without({i})
    /\ Go(p, [op |-> "dedupe", visitor |-> proc[p].visitor, dups |-> proc[p].dups \ {i}])
    /\ UNCHANGED <<scene, lastId, live, tagVars, ghosts>>

(* new.update(user=existing_user): one statement, on the rows of that      *)
(* moment; if two would have one key the request fails, and nothing moves. *)
MoveRows(p) ==
    /\ proc[p].op = "dedupe" /\ proc[p].dups = {}
    /\ LET v == proc[p].visitor IN
       IF Duplicates(v) = {}
       THEN /\ rows' = [i \in DOMAIN rows |->
                            IF i \in Owned(v, "temp") THEN [rows[i] EXCEPT !.as = "person"]
                            ELSE rows[i]]
            /\ moved' = moved \cup {v}
            /\ Go(p, [op |-> "drop", visitor |-> v])
       ELSE Go(p, Idle) /\ UNCHANGED <<rows, moved>>
    /\ UNCHANGED <<scene, lastId, live, tagVars, withdrawn, late>>

(* User.delete(), with whatever rows the user has by then. *)
DropUser(p) ==
    /\ proc[p].op = "drop"
    /\ live' = live \ {proc[p].visitor}
    /\ rows' = Without(Owned(proc[p].visitor, "temp"))
    /\ Go(p, Idle)
    /\ UNCHANGED <<scene, lastId, tagVars, ghosts>>

-----------------------------------------------------------------------------
(* The moderator                                                            *)

(* BlockedTagHandler.update and delete, ApprovedTagHandler.update: first    *)
(* the tag, then all its interactions.                                      *)
Block(p) ==
    /\ Free(p) /\ scene.kind = "moderated"
    /\ blocked' = TRUE
    /\ Go(p, [op |-> "decide", approved |-> FALSE, verdict |-> "block"])
    /\ UNCHANGED <<scene, rows, lastId, live, tag, foreign, verdict, ghosts>>

Unblock(p) ==
    /\ Free(p) /\ scene.kind = "moderated" /\ blocked
    /\ blocked' = FALSE
    /\ Go(p, [op |-> "decide", approved |-> TRUE, verdict |-> "open"])
    /\ UNCHANGED <<scene, rows, lastId, live, tag, foreign, verdict, ghosts>>

(* Mutant: the interactions are approved, the tag itself is not. *)
ApproveRows(p) ==
    /\ Free(p) /\ scene.kind = "moderated"
    /\ Go(p, [op |-> "decide", approved |-> TRUE, verdict |-> "approve"])
    /\ UNCHANGED <<scene, rows, lastId, live, tagVars, ghosts>>

Approve(p) ==
    /\ Free(p) /\ scene.kind = "moderated"
    /\ tag' = "approved"
    /\ Go(p, [op |-> "decide", approved |-> TRUE, verdict |-> "approve"])
    /\ UNCHANGED <<scene, rows, lastId, live, blocked, foreign, verdict, ghosts>>

Decide(p) ==
    /\ proc[p].op = "decide"
    /\ rows' = [i \in DOMAIN rows |-> [rows[i] EXCEPT !.approved = proc[p].approved]]
    /\ verdict' = proc[p].verdict
    /\ Go(p, Idle)
    /\ UNCHANGED <<scene, lastId, live, blocked, tag, foreign, ghosts>>

(* ModerationHandler: the interaction is read, turned over and saved whole, *)
(* as a new row if it has gone in between.                                  *)
BeginToggle(p, i) ==
    /\ Free(p) /\ scene.kind = "moderated"
    /\ Go(p, [op |-> "toggle", id |-> i,
              row |-> [rows[i] EXCEPT !.approved = ~rows[i].approved]])
    /\ UNCHANGED <<scene, rows, lastId, live, tagVars, ghosts>>

SaveToggle(p) ==
    /\ proc[p].op = "toggle"
    /\ LET i == proc[p].id  r == proc[p].row IN
       IF Allowed(r, DOMAIN rows \ {i})
       THEN /\ rows' = [j \in DOMAIN rows \cup {i} |-> IF j = i THEN r ELSE rows[j]]
            /\ verdict' = "open"
       ELSE UNCHANGED <<rows, verdict>>
    /\ Go(p, Idle)
    /\ UNCHANGED <<scene, lastId, live, blocked, tag, foreign, ghosts>>

(* The same handlers, for the other group: a reaction made there while no    *)
(* group has a row, or the approval by its moderator.                        *)
OtherGroup ==
    /\ scene.shared
    /\ scene.serial => \A p \in Procs : proc[p] = Idle
    /\ \/ foreign = "none" /\ (scene.serial => tag = "none") /\ foreign' = "pending"
       \/ foreign # "approved" /\ foreign' = "approved"
    /\ UNCHANGED <<scene, rows, lastId, live, blocked, tag, verdict, proc, ghosts>>

-----------------------------------------------------------------------------
(* The writes of the requests that have been begun. *)
Work(p) ==
    \/ Save(p)
    \/ CreateTag(p)
    \/ \E i \in Ids : DropDuplicate(p, i)
    \/ MoveRows(p)
    \/ DropUser(p)
    \/ Decide(p)
    \/ SaveToggle(p)

Next ==
    \/ OtherGroup
    \/ \E p \in Procs :
           \/ \E v \in Visitors, as \in {"temp", "person"}, c \in Contents, parent \in 0..MaxRows :
                  BeginCreate(p, v, as, c, parent)
           \/ \E i \in DOMAIN rows : Delete(p, i)
           \/ \E v \in Visitors : BeginLogin(p, v)
           \/ Block(p)
           \/ Unblock(p)
           \/ Approve(p)
           \/ \E i \in DOMAIN rows : BeginToggle(p, i)
           \/ Work(p)

Spec == Init /\ [][Next]_vars

-----------------------------------------------------------------------------
(* Properties                                                               *)

(* Where nobody agrees with anybody else, the table keeps the ledger's      *)
(* promise through duplicates, failed and repeated logins and deletions:    *)
(* only what a temporary user posts after a login has moved his reactions   *)
(* is not counted, and the deletion of the user takes it along.             *)
Entries ==
    IF scene.kind \in {"agreeing", "moderated"} THEN {}
    ELSE {EntryOf(rows[i]) : i \in DOMAIN rows \ late}
Named == IF scene.kind \in {"agreeing", "moderated"} THEN {} ELSE withdrawn
Ledger == INSTANCE ReactionLedger WITH ledger <- Entries, withdrawn <- Named
ImplementsLedger == Ledger!Spec

(* "Make sure there are no duplicate interactions.  Delete them if there    *)
(* are dupes" (userutils.py:19): of a reaction that two accounts of one     *)
(* visitor have, the login leaves one.                                      *)
LoginKeepsOne ==
    [][\A p \in Procs, i \in Ids : scene.serial /\ DropDuplicate(p, i) =>
           {EntryOf(rows'[j]) : j \in DOMAIN rows'} = {EntryOf(rows[j]) : j \in DOMAIN rows}]_vars

(* What the moderator decided last, carried out on all rows. *)
Hidden == verdict = "block" => \A i \in DOMAIN rows : ~rows[i].approved
Shown == verdict = "approve" => \A i \in DOMAIN rows : rows[i].approved

(* With one request at a time, the interactions agree with the last         *)
(* decision, also those made after it: none is shown after the reaction was *)
(* blocked, provided it is checked at all, and all are shown after it was   *)
(* approved, provided no other group has it.                                *)
ModerationHolds ==
    scene.serial => /\ Screened => Hidden
                    /\ ~scene.shared => Shown

(* "so, to keep the content url consistent, just grab it from an existing   *)
(* interaction" (utils.py:152): with one request at a time all reactions to *)
(* a picture have one content, through deletions and logins.                *)
PictureHasOneContent ==
    scene.serial /\ scene.kind = "pictures" =>
        \A i, j \in DOMAIN rows : rows[i].content = rows[j].content
=============================================================================
