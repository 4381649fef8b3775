------------------------------ MODULE PageCounts ------------------------------
(***************************************************************************)
(* The counts that one page shows.  The data object of a page (PageData)    *)
(* lists the reactions of every container and of the page's summary, with   *)
(* totals.  It is fed from three sides that know nothing of each other: the *)
(* page's data, the cross-page data of some containers, and the answers to  *)
(* the visitor's own reactions and +1s; other visitors react meanwhile.     *)
(*                                                                          *)
(* The database is a sequence of approved reactions, oldest first; what an  *)
(* answer holds is the data of a prefix, since a cache may have kept it.    *)
(* Every container has one piece of content, so a reaction is a container   *)
(* and a node, and the visitor can make it once.                            *)
(***************************************************************************)
EXTENDS Naturals, Sequences, FiniteSets, Functions

CONSTANTS
    Containers,       \* hashes of the containers found on the page
    PageContainer,    \* the one that reactions of the summary window go to
    CrossContainers,  \* those whose data is fetched across pages
    Nodes,            \* ids of reaction texts
    SummarySize,      \* how many reactions the server puts in a summary (15)
    IndicatorLimit,   \* how many containers keep their indicator, or 0
    MaxRows,          \* bound: reactions in the database
    MaxPosts,         \* bound: what the visitor does
    MaxAnswers        \* bound: answers with data

ASSUME ContainersAssumption ==
    PageContainer \in Containers /\ CrossContainers \subseteq Containers \ {PageContainer}
ASSUME SizesAssumption ==
    /\ Nodes \subseteq Nat /\ SummarySize \in Nat /\ IndicatorLimit \in Nat
    /\ MaxRows \in Nat /\ MaxPosts \in Nat /\ MaxAnswers \in Nat

VARIABLES
    rows,          \* the interactions, in the order they were created
    posts,         \* what the visitor did, in order
    reactions,     \* what each container lists, by parentID
    total,         \* the reactionTotal of each container
    suppress,      \* whether its indicator is suppressed
    summary,       \* the counts of the summary, by node
    summaryTotal,
    summaryLoaded,
    answers,       \* answers with data so far
    known          \* history: the count the browser has been told of, at least

lists == <<reactions, total, summary, summaryTotal>>
vars == <<rows, posts, lists, suppress, summaryLoaded, answers, known>>

Ids == 1..MaxRows
Pages == {"here", "there"}
Row == [page : Pages, container : Containers, node : Nodes, root : BOOLEAN, mine : BOOLEAN]
Entry == [node : Nodes, count : Nat]
Post == [op : {"new", "plusOne", "summaryPlusOne"}, container : Containers,
         node : Nodes, parent : 0..MaxRows,
         status : {"sent", "created", "existing", "done"},
         id : 0..MaxRows,        \* of the interaction in the answer
         attached : BOOLEAN]     \* whether its reaction is still in the lists

TypeOK ==
    /\ rows \in Seq(Row) /\ Len(rows) <= MaxRows
    /\ posts \in Seq(Post) /\ Len(posts) <= MaxPosts
    /\ DOMAIN reactions = Containers
    /\ \A c \in Containers :
           /\ DOMAIN reactions[c] \subseteq Ids
           /\ \A p \in DOMAIN reactions[c] : reactions[c][p] \in Entry
    /\ total \in [Containers -> Nat]
    /\ suppress \in [Containers -> BOOLEAN]
    /\ DOMAIN summary \subseteq Nodes /\ \A n \in DOMAIN summary : summary[n] \in Nat
    /\ summaryTotal \in Nat
    /\ summaryLoaded \in BOOLEAN
    /\ answers \in 0..MaxAnswers
    /\ known \in [Containers -> [Nodes -> Nat]]

Nothing == [x \in {} |-> x]

Init ==
    /\ rows = <<>> /\ posts = <<>>
    /\ reactions = [c \in Containers |-> Nothing]
    /\ total = [c \in Containers |-> 0]
    /\ suppress = [c \in Containers |-> FALSE]
    /\ summary = Nothing /\ summaryTotal = 0
    /\ summaryLoaded = FALSE
    /\ answers = 0
    /\ known = [c \in Containers |-> [n \in Nodes |-> 0]]

Larger(a, b) == IF a > b THEN a ELSE b
Sum(f) == FoldFunction(LAMBDA a, b : a + b, 0, f)
Counts(entries) == [p \in DOMAIN entries |-> entries[p].count]
NodesOf(entries) == {entries[p].node : p \in DOMAIN entries}

-----------------------------------------------------------------------------
(* The server's answers: the first k interactions, on some pages            *)

Counted(k, pages, c, n) ==
    {i \in 1..k : rows[i].page \in pages /\ rows[i].container = c /\ rows[i].node = n}

\* Newest first, every root replaces the one before: the oldest one stays.
Roots(k, pages, c) ==
    {p \in 1..k :
        /\ rows[p].page \in pages /\ rows[p].container = c /\ rows[p].root
        /\ \A q \in Counted(p - 1, pages, c, rows[p].node) : ~rows[q].root}

ContainerData(k, pages, c) ==
    [p \in Roots(k, pages, c) |->
        [node |-> rows[p].node,
         count |-> Cardinality(Counted(k, pages, c, rows[p].node))]]

OfPage(k, n) == UNION {Counted(k, {"here"}, c, n) : c \in Containers}

\* By count, then by id; the summary is cut off.
SummaryData(k) ==
    LET count(n) == Cardinality(OfPage(k, n))
        listed == {n \in Nodes : count(n) > 0}
        Before(m, n) == count(m) > count(n) \/ (count(m) = count(n) /\ m < n)
        top == {n \in listed : Cardinality({m \in listed : Before(m, n)}) < SummarySize}
    IN [n \in top |-> count(n)]

-----------------------------------------------------------------------------
(* Merging them                                                             *)

\* Mutant: the answer replaces what was there.
MergeReplaces(entries, fetched) == fetched

Merge(entries, fetched) ==
    [p \in DOMAIN entries \cup DOMAIN fetched |->
        IF p \notin DOMAIN entries THEN fetched[p]
        ELSE IF p \notin DOMAIN fetched THEN entries[p]
        ELSE [entries[p] EXCEPT !.count = Larger(@, fetched[p].count)]]

\* updateContainerData: every total is added up again.
UpdateContainerData(data) ==
    /\ reactions' = [c \in Containers |-> Merge(reactions[c], data[c])]
    /\ total' = [c \in Containers |-> Sum(Counts(reactions'[c]))]
    /\ known' = [c \in Containers |-> [n \in Nodes |->
           LET told == {data[c][p].count : p \in {q \in DOMAIN data[c] : data[c][q].node = n}}
           IN CHOOSE k \in told \cup {known[c][n]} : \A j \in told \cup {known[c][n]} : j <= k]]

\* applyTextIndicatorLimit, over the totals just computed.
ApplyTextIndicatorLimit ==
    IF IndicatorLimit = 0 THEN UNCHANGED suppress
    ELSE \E top \in SUBSET Containers :
        /\ IF Cardinality(Containers) <= IndicatorLimit THEN top = Containers
           ELSE Cardinality(top) = IndicatorLimit
        /\ \A a \in top, b \in Containers \ top : total'[a] >= total'[b]
        /\ suppress' = [c \in Containers |-> suppress[c] \/ c \notin top]

\* updatePageData; the summary is a new list, and the reactions of the old
\* one are nobody's.
PageDataArrives(k) ==
    /\ answers < MaxAnswers
    /\ answers' = answers + 1
    /\ UpdateContainerData([c \in Containers |-> ContainerData(k, {"here"}, c)])
    /\ ApplyTextIndicatorLimit
    /\ summary' = SummaryData(k)
    /\ summaryTotal' = Sum(summary')
    /\ summaryLoaded' = TRUE
    /\ posts' = [i \in DOMAIN posts |->
           [posts[i] EXCEPT !.attached = @ /\ posts[i].op # "summaryPlusOne"]]
    /\ UNCHANGED rows

\* mergeCrosspageContainerData.
CrosspageDataArrives(c, k) ==
    /\ answers < MaxAnswers
    /\ answers' = answers + 1
    /\ UpdateContainerData([d \in Containers |->
           IF d = c THEN ContainerData(k, Pages, c) ELSE Nothing])
    /\ UNCHANGED <<rows, posts, suppress, summary, summaryTotal, summaryLoaded>>

\* clearIndicatorLimit, when a reactions window opens.
OpenWindow ==
    /\ suppress' = [c \in Containers |-> FALSE]
    /\ UNCHANGED <<rows, posts, lists, summaryLoaded, answers, known>>

-----------------------------------------------------------------------------
(* The visitor.  Until the page's data is there, posts have no page_id and  *)
(* the server refuses them.                                                 *)

Send(op, c, n, p) ==
    /\ summaryLoaded
    /\ Len(posts) < MaxPosts
    /\ posts' = Append(posts, [op |-> op, container |-> c, node |-> n, parent |-> p,
                               status |-> "sent", id |-> 0, attached |-> TRUE])
    /\ UNCHANGED <<rows, lists, suppress, summaryLoaded, answers, known>>

PostNewReaction(c, n) == Send("new", c, n, 0)

PostPlusOne(c, p) ==
    /\ p \in DOMAIN reactions[c]
    /\ Send("plusOne", c, reactions[c][p].node, p)

\* A reaction of the summary has no parent: one of the page's container lends
\* it its own.
PostSummaryPlusOne(n) ==
    LET linked == {p \in DOMAIN reactions[PageContainer] : reactions[PageContainer][p].node = n}
    IN /\ n \in DOMAIN summary
       /\ \E p \in IF linked = {} THEN {0} ELSE linked :
              Send("summaryPlusOne", PageContainer, n, p)

\* createInteraction: the same reaction by the same visitor is made once.
CreateInteraction(i) ==
    LET post == posts[i]
        old == {j \in Counted(Len(rows), {"here"}, post.container, post.node) : rows[j].mine}
    IN /\ post.status = "sent"
       /\ \/ /\ old # {}
             /\ \E j \in old : posts' = [posts EXCEPT ![i].status = "existing", ![i].id = j]
             /\ UNCHANGED rows
          \/ /\ old = {}
             /\ Len(rows) < MaxRows
             /\ rows' = Append(rows, [page |-> "here", container |-> post.container,
                            node |-> post.node, root |-> post.parent = 0, mine |-> TRUE])
             /\ posts' = [posts EXCEPT ![i].status = "created", ![i].id = Len(rows) + 1]
       /\ UNCHANGED <<lists, suppress, summaryLoaded, answers, known>>

\* A blocked word, a lost connection ...: the error page is shown.
PostFails(i) ==
    /\ posts[i].status = "sent"
    /\ posts' = [posts EXCEPT ![i].status = "done"]
    /\ UNCHANGED <<rows, lists, suppress, summaryLoaded, answers, known>>

\* Mutant: whether the interaction existed is not looked at.
PlusOneSuccessAlways(i) ==
    LET post == posts[i] IN
    /\ post.op = "plusOne" /\ post.status \in {"created", "existing"}
    /\ posts' = [posts EXCEPT ![i].status = "done"]
    /\ reactions' = [reactions EXCEPT ![post.container][post.parent].count = @ + 1]
    /\ total' = [total EXCEPT ![post.container] = @ + 1]
    /\ summaryTotal' = summaryTotal + 1
    /\ UNCHANGED <<rows, summary, suppress, summaryLoaded, answers, known>>

\* Mutant: the container's total is forgotten.
PlusOneSuccessNoTotal(i) ==
    LET post == posts[i] IN
    /\ post.op = "plusOne" /\ post.status \in {"created", "existing"}
    /\ posts' = [posts EXCEPT ![i].status = "done"]
    /\ IF post.status = "created"
       THEN /\ reactions' = [reactions EXCEPT ![post.container][post.parent].count = @ + 1]
            /\ summaryTotal' = summaryTotal + 1
       ELSE UNCHANGED <<reactions, summaryTotal>>
    /\ UNCHANGED <<rows, total, summary, suppress, summaryLoaded, answers, known>>

\* plusOneSuccess, for a reaction of a container.
PlusOneSuccess(i) ==
    LET post == posts[i] IN
    /\ post.op = "plusOne" /\ post.status \in {"created", "existing"}
    /\ posts' = [posts EXCEPT ![i].status = "done"]
    /\ IF post.status = "created"
       THEN /\ reactions' = [reactions EXCEPT ![post.container][post.parent].count = @ + 1]
            /\ total' = [total EXCEPT ![post.container] = @ + 1]
            /\ summaryTotal' = summaryTotal + 1
       ELSE UNCHANGED <<reactions, total, summaryTotal>>
    /\ UNCHANGED <<rows, summary, suppress, summaryLoaded, answers, known>>

\* plusOneSuccess, for a reaction of the summary.
SummaryPlusOneSuccess(i) ==
    LET post == posts[i] IN
    /\ post.op = "summaryPlusOne" /\ post.status \in {"created", "existing"}
    /\ posts' = [posts EXCEPT ![i].status = "done"]
    /\ IF post.status = "created"
       THEN /\ summary' = IF post.attached THEN [summary EXCEPT ![post.node] = @ + 1]
                          ELSE summary
            /\ total' = [total EXCEPT ![post.container] = @ + 1]
            /\ summaryTotal' = summaryTotal + 1
       ELSE UNCHANGED <<summary, total, summaryTotal>>
    /\ UNCHANGED <<rows, reactions, suppress, summaryLoaded, answers, known>>

NewEntry(id, n) == [p \in {id} |-> [node |-> n, count |-> 1]]

\* Mutant: a reaction that the summary has not yet is not added to its total.
RegisterReactionNoTotal(c, n, id) ==
    IF n \in NodesOf(reactions[c]) THEN UNCHANGED lists
    ELSE /\ reactions' = [reactions EXCEPT ![c] = Merge(@, NewEntry(id, n))]
         /\ total' = [total EXCEPT ![c] = @ + 1]
         /\ summary' = [m \in DOMAIN summary \cup {n} |->
                IF m \notin DOMAIN summary THEN 1
                ELSE IF m = n THEN summary[m] + 1 ELSE summary[m]]
         /\ summaryTotal' = IF n \in DOMAIN summary THEN summaryTotal + 1 ELSE summaryTotal

RegisterReaction(c, n, id) ==
    IF n \in NodesOf(reactions[c]) THEN UNCHANGED lists
    ELSE /\ reactions' = [reactions EXCEPT ![c] = Merge(@, NewEntry(id, n))]
         /\ total' = [total EXCEPT ![c] = @ + 1]
         /\ summary' = [m \in DOMAIN summary \cup {n} |->
                IF m \notin DOMAIN summary THEN 1
                ELSE IF m = n THEN summary[m] + 1 ELSE summary[m]]
         /\ summaryTotal' = summaryTotal + 1

\* Mutant: the reaction keeps the parent it was posted with, none.
NewReactionSuccessOrphan(i) ==
    LET post == posts[i] IN
    /\ post.op = "new" /\ post.status \in {"created", "existing"}
    /\ posts' = [posts EXCEPT ![i].status = "done"]
    /\ RegisterReaction(post.container, post.node, post.parent)
    /\ known' = [known EXCEPT ![post.container][post.node] = Larger(@, 1)]
    /\ UNCHANGED <<rows, suppress, summaryLoaded, answers>>

NewReactionSuccess(i) ==
    LET post == posts[i] IN
    /\ post.op = "new" /\ post.status \in {"created", "existing"}
    /\ posts' = [posts EXCEPT ![i].status = "done"]
    /\ RegisterReaction(post.container, post.node, post.id)
    /\ known' = [known EXCEPT ![post.container][post.node] = Larger(@, 1)]
    /\ UNCHANGED <<rows, suppress, summaryLoaded, answers>>

-----------------------------------------------------------------------------
(* Everybody else: reactions and +1s, on this page and, in containers that   *)
(* other pages share, on others.                                            *)

OthersReact(page, c, n, root) ==
    /\ Len(rows) < MaxRows
    /\ page = "there" => c \in CrossContainers
    /\ root \/ \E q \in DOMAIN rows :
           /\ rows[q].container = c /\ rows[q].node = n /\ rows[q].root
           /\ rows[q].page = page \/ c \in CrossContainers
    /\ rows' = Append(rows, [page |-> page, container |-> c, node |-> n,
                             root |-> root, mine |-> FALSE])
    /\ UNCHANGED <<posts, lists, suppress, summaryLoaded, answers, known>>

Next ==
    \/ \E k \in 0..Len(rows) : PageDataArrives(k)
    \/ \E c \in CrossContainers, k \in 0..Len(rows) : CrosspageDataArrives(c, k)
    \/ OpenWindow
    \/ \E c \in Containers, n \in Nodes : PostNewReaction(c, n)
    \/ \E c \in Containers, p \in Ids : PostPlusOne(c, p)
    \/ \E n \in Nodes : PostSummaryPlusOne(n)
    \/ \E i \in DOMAIN posts :
           \/ CreateInteraction(i) \/ PostFails(i)
           \/ PlusOneSuccess(i) \/ SummaryPlusOneSuccess(i) \/ NewReactionSuccess(i)
    \/ \E page \in Pages, c \in Containers, n \in Nodes, root \in BOOLEAN :
           OthersReact(page, c, n, root)

Spec == Init /\ [][Next]_vars

-----------------------------------------------------------------------------
(* Properties                                                               *)

\* No reaction is shown with more than one count too many: the visitor's own
\* +1, when data that already had it came before its answer (page-data.js:126,
\* ajax-client.js:97-100; utils.py:166-181 lets him make it only once).
OverByOne ==
    \A c \in Containers : \A p \in DOMAIN reactions[c] :
        LET e == reactions[c][p]
        IN e.count <= Cardinality(Counted(Len(rows), Pages, c, e.node)) + 1

\* What the browser has once been told of a reaction stays on the page, and an
\* answer that is older takes nothing back (page-data.js:109-133).
KnownReactionsShown ==
    \A c \in Containers, n \in Nodes : known[c][n] > 0 =>
        \E p \in DOMAIN reactions[c] :
            reactions[c][p].node = n /\ reactions[c][p].count >= known[c][n]

\* The number on an indicator is the sum of what its window lists; only that
\* of the page's own container may run ahead, by +1s made in the summary
\* (page-data.js:149-161, 273; ajax-client.js:100-101).
TotalsAddUp ==
    \A c \in Containers :
        /\ total[c] >= Sum(Counts(reactions[c]))
        /\ c # PageContainer => total[c] = Sum(Counts(reactions[c]))

\* The summary's total never falls behind the reactions it lists, whatever
\* list the visitor's answers find (page-data.js:60-65, 274-292).
SummaryCoversItsList == summaryTotal >= Sum(summary)
=============================================================================
