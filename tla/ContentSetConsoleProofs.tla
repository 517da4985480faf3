------------------------ MODULE ContentSetConsoleProofs ------------------------
(* The tree of the console for any number of calls in flight and of actions of its *)
(* administrator: its types, its load, and that it shows what the server has.      *)
EXTENDS ContentSetConsoleProperties, SequenceTheorems, TLAPS

\* While a load is in flight there are no leaves, and it is the only one.
LoadInv ==
    /\ NoDuplicates
    /\ LoadingIsAwaited
    /\ loading => nodes = <<>>

-----------------------------------------------------------------------------
(* What makes the tree fresh                                                      *)

\* A call that the server has carried out, and that will reload the tree.
Awaited(c) == c \in InFlight /\ calls[c].at = "served" /\ calls[c].change # "move"

\* Nobody stops listening to a save, and only moves are read before they are written.
CallsInv ==
    /\ \A c \in InFlight : calls[c].at = "read" => calls[c].change = "move" /\ row # None
    /\ ~lost => \A c \in InFlight : calls[c].change \in {"create", "save"} => calls[c].heard
    /\ ~crossed => \A c, d \in Unserved : c # d => ~Conflict(calls[c], calls[d])

\* A move that has been read writes the state that is there.
MovesInv ==
    ~crossed => \A c \in InFlight :
        calls[c].at = "read" /\ Exists => calls[c].set.enabled = row.enabled

\* What a list shows and what the tree shows is what there is, unless a call is about to
\* reload the tree.
Shows ==
    /\ loaded => /\ nodes = <<>> <=> ~Exists
                 /\ \A i \in DOMAIN nodes : nodes[i].attr.enabled = row.enabled
    /\ \A i \in DOMAIN lists : lists[i].at = "served" =>
        /\ lists[i].read = {} <=> ~Exists
        /\ \A s \in lists[i].read : s.enabled = row.enabled
ShownInv == ~lost /\ ~swallowed /\ ~crossed /\ (\A c \in Slots : ~Awaited(c)) => Shows

\* The move of a leaf that is not in its old folder is under way, or done, or refused.
PlaceInv ==
    ~lost /\ ~crossed =>
        \A i \in DOMAIN nodes : nodes[i].place # nodes[i].attr.path =>
            /\ \A c \in Unserved :
                calls[c].change = "move" => calls[c].set.path = nodes[i].place
            /\ \/ \E c \in Slots : Awaited(c)
               \/ \E c \in Unserved : calls[c].change = "move"
               \/ Exists => row.path = nodes[i].place \/ strayed

FreshInv == CallsInv /\ MovesInv /\ ShownInv /\ PlaceInv

-----------------------------------------------------------------------------
(* Types                                                                          *)

LEMMA Mapped ==
    ASSUME NEW S, NEW s \in Seq(S), NEW t, DOMAIN t = DOMAIN s, t = [i \in DOMAIN s |-> t[i]],
           \A i \in DOMAIN s : t[i] \in S
    PROVE  t \in Seq(S) /\ Len(t) = Len(s)
<1>1. Len(s) \in Nat /\ DOMAIN s = 1..Len(s)
    BY LenProperties
<1>2. t \in [1..Len(s) -> S]
    BY <1>1
<1>3. t \in Seq(S)
    BY <1>1, <1>2, SeqDef
<1> QED
    BY <1>1, <1>3, LenProperties

LEMMA SetTypes ==
    /\ NewSet \in Sets
    /\ \A s \in Sets, b \in BOOLEAN : [s EXCEPT !.enabled = b] \in Sets
    /\ \A s \in Sets, p \in Paths : [s EXCEPT !.path = p] \in Sets
BY DEF NewSet, Sets, Paths

LEMMA NodeTypes ==
    /\ \A n \in Nodes : n.attr \in Sets /\ n.menu \in Sets /\ n.place \in Paths
    /\ \A s \in Sets : Leaf(s) \in Nodes
BY DEF Nodes, Sets, Leaf

LEMMA CallTypes ==
    ASSUME NEW change \in Changes, NEW set \in Sets, NEW multi \in BOOLEAN
    PROVE  Call(change, set, multi) \in Calls
BY DEF Call, Calls

ListTypes == [at : {"sent", "served", "failed", "vanished"}, read : SUBSET Sets]

TreeTypes ==
    /\ nodes \in Seq(Nodes)
    /\ loading \in BOOLEAN /\ loaded \in BOOLEAN
    /\ waiters \in Nat
    /\ lists \in Seq(ListTypes)

LEMMA DeafType == calls \in [Slots -> Calls \cup {Free}] => Deaf \in [Slots -> Calls \cup {Free}]
BY DEF Deaf, InFlight, Calls

LEMMA SendType ==
    ASSUME NEW call \in Calls, NEW before \in [Slots -> Calls \cup {Free}], Send(call, before),
           TypeOK
    PROVE  calls' \in [Slots -> Calls \cup {Free}] /\ crossed' \in BOOLEAN
BY DEF Send, TypeOK

LEMMA ReloadType ==
    ASSUME TypeOK, Reload
    PROVE  TreeTypes' /\ swallowed' \in BOOLEAN
<1>1. Sent \in ListTypes
    BY DEF Sent, ListTypes
<1>2. <<>> \in Seq(Nodes)
    BY EmptySeq
<1>3. CASE loading
    <2>1. waiters' = waiters + 1 /\ UNCHANGED <<loading, lists>>
        BY <1>3 DEF Reload, Expand
    <2>2. waiters' \in Nat
        BY <2>1 DEF TypeOK
    <2> QED
        BY <1>2, <2>1, <2>2 DEF Reload, TypeOK, TreeTypes, ListTypes
<1>4. CASE ~loading
    <2>1. lists' = Append(lists, Sent) /\ loading' = TRUE /\ waiters' = waiters
        BY <1>4 DEF Reload, Expand
    <2>2. lists' \in Seq(ListTypes)
        BY <1>1, <2>1, AppendProperties DEF TypeOK, ListTypes
    <2> QED
        BY <1>2, <2>1, <2>2 DEF Reload, TypeOK, TreeTypes
<1> QED
    BY <1>3, <1>4

LEMMA StatusType ==
    ASSUME TypeOK, NEW enabled \in BOOLEAN, UpdateStatus(enabled)
    PROVE  form' \in Forms \cup {Closed, New} /\ nodes' \in Seq(Nodes) /\ Len(nodes') = Len(nodes)
<1>1. form' \in Forms \cup {Closed, New}
    BY DEF TypeOK, UpdateStatus, Forms, Sets
<1>2. \A i \in DOMAIN nodes : nodes[i] \in Nodes
    BY ElementOfSeq, LenProperties DEF TypeOK
<1>3. CASE form \in Forms /\ form.shared
    <2>1. nodes' = [i \in DOMAIN nodes |-> [nodes[i] EXCEPT !.menu.enabled = enabled]]
        BY <1>3 DEF UpdateStatus
    <2>2. \A i \in DOMAIN nodes : nodes'[i] \in Nodes
        BY <1>2, <2>1 DEF Nodes, Sets
    <2>3. DOMAIN nodes' = DOMAIN nodes /\ nodes' = [i \in DOMAIN nodes |-> nodes'[i]]
        BY <2>1
    <2> QED
        BY <1>1, <2>2, <2>3, Mapped DEF TypeOK
<1>4. CASE ~(form \in Forms /\ form.shared)
    BY <1>1, <1>4 DEF UpdateStatus, TypeOK
<1> QED
    BY <1>3, <1>4

LEMMA PathType ==
    ASSUME TypeOK, NEW path \in Paths, NEW leaves \in Seq(Nodes), UpdatePath(path, leaves)
    PROVE  form' \in Forms \cup {Closed, New} /\ nodes' \in Seq(Nodes) /\ Len(nodes') = Len(leaves)
<1>1. form' \in Forms \cup {Closed, New}
    BY DEF TypeOK, UpdatePath, Forms, Sets
<1>2. \A i \in DOMAIN leaves : leaves[i] \in Nodes
    BY ElementOfSeq, LenProperties
<1>3. CASE form \in Forms /\ form.shared
    <2>1. nodes' = [i \in DOMAIN leaves |-> [leaves[i] EXCEPT !.menu.path = path]]
        BY <1>3 DEF UpdatePath
    <2>2. \A i \in DOMAIN leaves : nodes'[i] \in Nodes
        BY <1>2, <2>1 DEF Nodes, Sets
    <2>3. DOMAIN nodes' = DOMAIN leaves /\ nodes' = [i \in DOMAIN leaves |-> nodes'[i]]
        BY <2>1
    <2> QED
        BY <1>1, <2>2, <2>3, Mapped
<1>4. CASE ~(form \in Forms /\ form.shared)
    BY <1>1, <1>4 DEF UpdatePath
<1> QED
    BY <1>3, <1>4

LEMMA UnsharedType ==
    form \in Forms \cup {Closed, New} => Unshared(form) \in Forms \cup {Closed, New}
BY DEF Unshared, Forms

LEMMA CompleteType ==
    ASSUME TypeOK, NEW i \in DOMAIN lists, LoadComplete(i)
    PROVE  /\ lists' \in Seq(ListTypes) /\ Len(lists') = Len(lists) - 1
           /\ loading' = FALSE /\ loaded' = TRUE
<1> DEFINE front == SubSeq(lists, 1, i - 1)
           back == SubSeq(lists, i + 1, Len(lists))
<1>1. lists \in Seq(ListTypes)
    BY DEF TypeOK, ListTypes
<1>2. i \in 1..Len(lists) /\ Len(lists) \in Nat
    BY <1>1, LenProperties
<1>3. \A j \in 1..Len(lists) : lists[j] \in ListTypes
    BY <1>1, ElementOfSeq
<1>4. front \in Seq(ListTypes) /\ Len(front) = i - 1
    <2>1. \A j \in 1..(i - 1) : lists[j] \in ListTypes
        BY <1>2, <1>3
    <2> QED
        BY <1>2, <2>1, SubSeqProperties
<1>5. back \in Seq(ListTypes) /\ Len(back) = Len(lists) - i
    <2>1. \A j \in (i + 1)..Len(lists) : lists[j] \in ListTypes
        BY <1>2, <1>3
    <2> QED
        BY <1>2, <2>1, SubSeqProperties
<1>6. lists' = front \o back
    BY DEF LoadComplete
<1> HIDE DEF front, back
<1>7. lists' \in Seq(ListTypes) /\ Len(lists') = Len(lists) - 1
    BY <1>2, <1>4, <1>5, <1>6, ConcatProperties
<1> QED
    BY <1>7 DEF LoadComplete

\* TypeOK in parts: what an action leaves alone keeps its part.
CallsType == calls \in [Slots -> Calls \cup {Free}]
FormType == form \in Forms \cup {Closed, New}
HazardTypes == lost \in BOOLEAN /\ swallowed \in BOOLEAN /\ crossed \in BOOLEAN
RefusalTypes == strayed \in BOOLEAN /\ misled \in BOOLEAN
RowType == row \in Sets \cup {None, Gone}
ClicksType == clicks \in 0..MaxClicks

LEMMA TypeParts ==
    TypeOK <=> /\ TreeTypes /\ CallsType /\ FormType /\ HazardTypes /\ RowType /\ ClicksType
               /\ RefusalTypes
BY DEF TypeOK, TreeTypes, CallsType, FormType, HazardTypes, RefusalTypes, RowType, ClicksType,
       ListTypes

\* Whatever is done, the flags of what was refused stay Booleans.
LEMMA RefusalsTyped ==
    ASSUME TypeOK, Next
    PROVE  RefusalTypes'
<1>1. RefusalTypes
    BY TypeParts
<1>2. CASE EditContentSet
    BY <1>1, <1>2 DEF EditContentSet, RefusalTypes
<1>3. CASE Clicks /\ ~EditContentSet
    BY <1>1, <1>3
    DEF Clicks, ChangeStatus, ConfirmDeleteContentSet, DoMultiAction, NodeDropped,
        AddContentSetForm, Submit, CloseForm, RefreshTrees, Reload, hazardVars, refusalVars,
        RefusalTypes
<1>4. CASE TreeStep \/ \E i \in DOMAIN lists : ListFails(i)
    BY <1>1, <1>4
    DEF TreeStep, ServeList, HandleResponse, HandleFailure, WaiterWakes, ListFails,
        hazardVars, refusalVars, RefusalTypes
<1>5. ASSUME NEW c \in Slots, Serve(c) PROVE RefusalTypes'
    BY <1>1, <1>5
    DEF Serve, ServeChange, Change, Neglect, ServeSave, ReadMove, WriteMove, RefuseMove,
        hazardVars, RefusalTypes
<1>6. ASSUME NEW c \in Slots, Answer(c) \/ CallFails(c) PROVE RefusalTypes'
    BY <1>1, <1>6
    DEF Answer, StatusChanged, MultiSuccess, OnSuccess, OtherAnswer, CallFails, Reload,
        hazardVars, refusalVars, RefusalTypes
<1> QED
    BY <1>2, <1>3, <1>4, <1>5, <1>6 DEF Next

LEMMA TypePartsAfter ==
    ASSUME TypeOK, Next,
           TreeTypes', CallsType', FormType', HazardTypes', RowType', ClicksType'
    PROVE  TypeOK'
BY RefusalsTyped
DEF TypeOK, TreeTypes, CallsType, FormType, HazardTypes, RefusalTypes, RowType, ClicksType,
    ListTypes

LEMMA TypeInit == Init => TypeOK
<1> SUFFICES ASSUME Init PROVE TypeOK
    OBVIOUS
<1>1. ClicksType
    BY ClicksAssumption DEF Init, ClicksType
<1>2. TreeTypes
    <2>1. nodes \in Seq(Nodes) /\ lists \in Seq(ListTypes)
        BY EmptySeq DEF Init
    <2>2. waiters \in Nat
        BY DEF Init
    <2> QED
        BY <2>1, <2>2 DEF Init, TreeTypes
<1> QED
    BY <1>1, <1>2, TypeParts DEF Init, CallsType, FormType, HazardTypes, RefusalTypes, RowType

LEMMA ClickType == TypeOK /\ Click => ClicksType'
BY ClicksAssumption DEF TypeOK, Click, ClicksType

LEMMA NodeMember == TypeOK => \A i \in DOMAIN nodes : nodes[i] \in Nodes
BY ElementOfSeq, LenProperties DEF TypeOK

LEMMA ListMember == TypeOK => \A i \in DOMAIN lists : lists[i] \in ListTypes
BY ElementOfSeq, LenProperties DEF TypeOK, ListTypes

LEMMA CallMember == TypeOK => \A c \in InFlight : c \in Slots /\ calls[c] \in Calls
BY DEF TypeOK, InFlight

\* The administrator's actions keep the types.
LEMMA ClicksTyped ==
    ASSUME TypeOK, Clicks
    PROVE  TypeOK'
<1> Next
    BY DEF Next
<1>1. ASSUME Click PROVE ClicksType'
    BY <1>1, ClickType
<1>2. TreeTypes /\ CallsType /\ FormType /\ HazardTypes /\ RowType
    BY TypeParts
<1>3. CASE ChangeStatus
    <2>1. PICK i \in DOMAIN nodes :
            LET set == [nodes[i].menu EXCEPT !.enabled = ~nodes[i].menu.enabled] IN
            /\ Send(Call(IF set.enabled THEN "enable" ELSE "disable", set, FALSE), calls)
            /\ UpdateStatus(set.enabled)
        BY <1>3 DEF ChangeStatus
    <2> DEFINE set == [nodes[i].menu EXCEPT !.enabled = ~nodes[i].menu.enabled]
               change == IF set.enabled THEN "enable" ELSE "disable"
    <2>2. set \in Sets /\ set.enabled \in BOOLEAN
        BY NodeMember, NodeTypes DEF Sets
    <2>3. change \in Changes
        BY DEF Changes
    <2>4. Send(Call(change, set, FALSE), calls) /\ UpdateStatus(set.enabled)
        BY <2>1
    <2> HIDE DEF set, change
    <2>5. Call(change, set, FALSE) \in Calls
        BY <2>2, <2>3, CallTypes
    <2>6. CallsType' /\ crossed' \in BOOLEAN
        BY <2>4, <2>5, SendType, <1>2 DEF CallsType
    <2>7. FormType' /\ nodes' \in Seq(Nodes)
        BY <2>2, <2>4, StatusType DEF FormType
    <2>8. UNCHANGED <<row, loading, loaded, waiters, lists, lost, swallowed>> /\ Click
        BY <1>3 DEF ChangeStatus
    <2> QED
        BY <1>1, <1>2, <2>6, <2>7, <2>8, TypePartsAfter DEF TreeTypes, HazardTypes, RowType
<1>4. CASE ConfirmDeleteContentSet
    <2>1. NewSet \in Sets /\ "remove" \in Changes
        BY SetTypes DEF Changes
    <2>2. Call("remove", NewSet, FALSE) \in Calls
        BY <2>1, CallTypes
    <2>3. (IF form \in Forms THEN Deaf ELSE calls) \in [Slots -> Calls \cup {Free}]
        BY <1>2, DeafType DEF CallsType
    <2>4. CallsType' /\ crossed' \in BOOLEAN
        BY <1>4, <2>2, <2>3, SendType DEF ConfirmDeleteContentSet, CallsType
    <2>5. FormType' /\ lost' \in BOOLEAN
        BY <1>2, <1>4 DEF ConfirmDeleteContentSet, Remove, FormType, HazardTypes
    <2>6. UNCHANGED <<row, treeVars, swallowed>> /\ Click
        BY <1>4 DEF ConfirmDeleteContentSet
    <2> QED
        BY <1>1, <1>2, <2>4, <2>5, <2>6, TypePartsAfter DEF TreeTypes, HazardTypes, RowType, treeVars
<1>5. CASE DoMultiAction
    <2>1. PICK i \in DOMAIN nodes, change \in {"enable", "disable", "remove"} :
            Send(Call(change, [nodes[i].attr EXCEPT !.enabled = (change = "enable")], TRUE), calls)
        BY <1>5 DEF DoMultiAction
    <2> DEFINE set == [nodes[i].attr EXCEPT !.enabled = (change = "enable")]
    <2>2. set \in Sets
        BY NodeMember, NodeTypes, SetTypes
    <2> HIDE DEF set
    <2>3. Call(change, set, TRUE) \in Calls
        BY <2>2, CallTypes DEF Changes
    <2>4. CallsType' /\ crossed' \in BOOLEAN
        BY <1>2, <2>1, <2>3, SendType DEF CallsType, set
    <2>5. UNCHANGED <<row, treeVars, form, lost, swallowed>> /\ Click
        BY <1>5 DEF DoMultiAction
    <2> QED
        BY <1>1, <1>2, <2>4, <2>5, TypePartsAfter
        DEF TreeTypes, HazardTypes, RowType, FormType, treeVars
<1>6. CASE NodeDropped
    <2>1. PICK i \in DOMAIN nodes, path \in Paths :
            LET leaves == [nodes EXCEPT ![i].place = path] IN
            IF path # nodes[i].attr.path
            THEN /\ Send(Call("move", [nodes[i].attr EXCEPT !.path = path], FALSE), calls)
                 /\ UpdatePath(path, leaves)
            ELSE nodes' = leaves /\ UNCHANGED <<form, calls, crossed>>
        BY <1>6 DEF NodeDropped
    <2> DEFINE leaves == [nodes EXCEPT ![i].place = path]
               set == [nodes[i].attr EXCEPT !.path = path]
    <2>2. leaves \in Seq(Nodes)
        <3>1. \A j \in DOMAIN nodes : leaves[j] \in Nodes
            BY NodeMember DEF Nodes
        <3>2. DOMAIN leaves = DOMAIN nodes /\ leaves = [j \in DOMAIN nodes |-> leaves[j]]
            OBVIOUS
        <3> HIDE DEF leaves
        <3> QED
            BY <3>1, <3>2, Mapped DEF TypeOK
    <2>3. set \in Sets
        BY NodeMember, NodeTypes, SetTypes
    <2>4. UNCHANGED <<row, loading, loaded, waiters, lists, lost, swallowed>> /\ Click
        BY <1>6 DEF NodeDropped
    <2>5. CASE path # nodes[i].attr.path
        <3>1. Send(Call("move", set, FALSE), calls) /\ UpdatePath(path, leaves)
            BY <2>1, <2>5
        <3> HIDE DEF set, leaves
        <3>2. Call("move", set, FALSE) \in Calls
            BY <2>3, CallTypes DEF Changes
        <3>3. CallsType' /\ crossed' \in BOOLEAN
            BY <1>2, <3>1, <3>2, SendType DEF CallsType
        <3>4. FormType' /\ nodes' \in Seq(Nodes)
            BY <2>2, <3>1, PathType DEF FormType
        <3> QED
            BY <1>1, <1>2, <2>4, <3>3, <3>4, TypePartsAfter DEF TreeTypes, HazardTypes, RowType
    <2>6. CASE path = nodes[i].attr.path
        <3>1. nodes' = leaves /\ UNCHANGED <<form, calls, crossed>>
            BY <2>1, <2>6
        <3> HIDE DEF leaves
        <3> QED
            BY <1>1, <1>2, <2>2, <2>4, <3>1, TypePartsAfter
            DEF TreeTypes, HazardTypes, RowType, FormType, CallsType
    <2> QED
        BY <2>5, <2>6
<1>7. CASE EditContentSet
    <2>1. FormType'
        BY <1>7, NodeMember, NodeTypes DEF EditContentSet, FormType, Forms
    <2>2. UNCHANGED <<row, treeVars, calls, lost, swallowed, crossed>> /\ Click
        BY <1>7 DEF EditContentSet
    <2> QED
        BY <1>1, <1>2, <2>1, <2>2, TypePartsAfter
        DEF TreeTypes, HazardTypes, RowType, CallsType, treeVars
<1>8. CASE AddContentSetForm
    <2>1. FormType' /\ UNCHANGED <<row, treeVars, calls, hazardVars>> /\ Click
        BY <1>8 DEF AddContentSetForm, FormType
    <2> QED
        BY <1>1, <1>2, <2>1, TypePartsAfter
        DEF TreeTypes, HazardTypes, RowType, CallsType, treeVars, hazardVars
<1>9. CASE Submit
    <2> DEFINE call == IF form = New THEN Call("create", NewSet, FALSE)
                       ELSE Call("save", form.set, FALSE)
    <2>1. form = New \/ form.set \in Sets
        BY <1>2, <1>9 DEF Submit, FormType, Forms
    <2>2. call \in Calls
        BY <2>1, SetTypes, CallTypes DEF Changes
    <2>3. Send(call, calls)
        BY <1>9 DEF Submit
    <2> HIDE DEF call
    <2>4. CallsType' /\ crossed' \in BOOLEAN
        BY <1>2, <2>2, <2>3, SendType DEF CallsType
    <2>5. UNCHANGED <<row, treeVars, form, lost, swallowed>> /\ Click
        BY <1>9 DEF Submit
    <2> QED
        BY <1>1, <1>2, <2>4, <2>5, TypePartsAfter
        DEF TreeTypes, HazardTypes, RowType, FormType, treeVars
<1>10. CASE CloseForm
    <2>1. FormType' /\ lost' \in BOOLEAN
        BY <1>2, <1>10 DEF CloseForm, FormType, HazardTypes
    <2>2. CallsType'
        BY <1>2, <1>10, DeafType DEF CloseForm, CallsType
    <2>3. UNCHANGED <<row, treeVars, swallowed, crossed>> /\ Click
        BY <1>10 DEF CloseForm
    <2> QED
        BY <1>1, <1>2, <2>1, <2>2, <2>3, TypePartsAfter DEF TreeTypes, HazardTypes, RowType, treeVars
<1>11. CASE RefreshTrees
    <2>1. TreeTypes' /\ swallowed' \in BOOLEAN
        BY <1>11, ReloadType DEF RefreshTrees
    <2>2. FormType'
        BY <1>2, <1>11, UnsharedType DEF RefreshTrees, FormType
    <2>3. UNCHANGED <<row, calls, lost, crossed>> /\ Click
        BY <1>11 DEF RefreshTrees
    <2> QED
        BY <1>1, <1>2, <2>1, <2>2, <2>3, TypePartsAfter DEF HazardTypes, RowType, CallsType
<1> QED
    BY <1>3, <1>4, <1>5, <1>6, <1>7, <1>8, <1>9, <1>10, <1>11 DEF Clicks

LEMMA AtType ==
    ASSUME TypeOK, NEW c \in InFlight, NEW at \in {"sent", "read", "served", "refused"}, At(c, at)
    PROVE  CallsType'
BY CallMember DEF TypeOK, At, CallsType, Calls

LEMMA ServeTyped ==
    ASSUME TypeOK, NEW c \in Slots, Serve(c)
    PROVE  TypeOK'
<1> Next
    BY DEF Next
<1>1. TreeTypes /\ CallsType /\ FormType /\ HazardTypes /\ RowType /\ ClicksType
    BY TypeParts
<1>2. c \in InFlight /\ calls[c] \in Calls
    BY CallMember DEF Serve, ServeChange, ServeSave, ReadMove, WriteMove, RefuseMove, Unserved
<1>3. calls[c].set \in Sets
    BY <1>2 DEF Calls
<1>4. UNCHANGED <<treeVars, form, clicks, lost, swallowed, crossed>>
    BY DEF Serve, ServeChange, ServeSave, ReadMove, WriteMove, RefuseMove, hazardVars
<1>5. CASE ServeChange(c)
    <2>1. CallsType'
        BY <1>2, <1>5, AtType DEF ServeChange
    <2>2. RowType'
        BY <1>1, <1>3, <1>5 DEF ServeChange, Change, Neglect, RowType, Exists, Sets
    <2> QED
        BY <1>1, <1>4, <2>1, <2>2, TypePartsAfter
        DEF TreeTypes, FormType, HazardTypes, ClicksType, treeVars
<1>6. CASE ServeSave(c)
    <2>1. CallsType'
        BY <1>2, <1>6, AtType DEF ServeSave
    <2>2. RowType'
        BY <1>1, <1>3, <1>6 DEF ServeSave, RowType
    <2> QED
        BY <1>1, <1>4, <2>1, <2>2, TypePartsAfter
        DEF TreeTypes, FormType, HazardTypes, ClicksType, treeVars
<1>7. CASE ReadMove(c)
    <2>1. CallsType'
        BY <1>1, <1>2, <1>7 DEF ReadMove, CallsType, Calls, Sets, Exists
    <2>2. RowType'
        BY <1>1, <1>7 DEF ReadMove, RowType
    <2> QED
        BY <1>1, <1>4, <2>1, <2>2, TypePartsAfter
        DEF TreeTypes, FormType, HazardTypes, ClicksType, treeVars
<1>8. CASE WriteMove(c)
    <2>1. CallsType'
        BY <1>2, <1>8, AtType DEF WriteMove
    <2>2. RowType'
        BY <1>1, <1>3, <1>8 DEF WriteMove, RowType
    <2> QED
        BY <1>1, <1>4, <2>1, <2>2, TypePartsAfter
        DEF TreeTypes, FormType, HazardTypes, ClicksType, treeVars
<1>9. CASE RefuseMove(c)
    <2>1. CallsType'
        BY <1>2, <1>9, AtType DEF RefuseMove
    <2>2. RowType'
        BY <1>1, <1>9 DEF RefuseMove, RowType
    <2> QED
        BY <1>1, <1>4, <2>1, <2>2, TypePartsAfter
        DEF TreeTypes, FormType, HazardTypes, ClicksType, treeVars
<1> QED
    BY <1>5, <1>6, <1>7, <1>8, <1>9 DEF Serve

LEMMA AnswerTyped ==
    ASSUME TypeOK, NEW c \in Slots, Answer(c) \/ CallFails(c)
    PROVE  TypeOK'
<1> Next
    BY DEF Next
<1>1. TreeTypes /\ CallsType /\ FormType /\ HazardTypes /\ RowType /\ ClicksType
    BY TypeParts
<1>2. Done(c) => CallsType'
    BY <1>1 DEF Done, CallsType
<1>3. Unshared(form) \in Forms \cup {Closed, New}
    BY <1>1, UnsharedType DEF FormType
<1>4. CASE StatusChanged(c)
    <2>1. TreeTypes' /\ swallowed' \in BOOLEAN
        BY <1>4, ReloadType DEF StatusChanged
    <2>2. FormType' /\ CallsType'
        BY <1>2, <1>3, <1>4 DEF StatusChanged, FormType
    <2>3. UNCHANGED <<row, clicks, lost, crossed>>
        BY <1>4 DEF StatusChanged
    <2> QED
        BY <1>1, <2>1, <2>2, <2>3, TypePartsAfter DEF HazardTypes, RowType, ClicksType
<1>5. CASE MultiSuccess(c)
    <2>1. TreeTypes' /\ swallowed' \in BOOLEAN
        BY <1>5, ReloadType DEF MultiSuccess
    <2>2. UNCHANGED <<row, clicks, crossed>>
        BY <1>5 DEF MultiSuccess
    <2>3. CASE calls[c].change = "remove"
        <3>1. /\ form' = IF form \in Forms THEN Closed ELSE form
              /\ lost' = (lost \/ (form \in Forms /\ Saving))
              /\ calls' = [(IF form \in Forms THEN Deaf ELSE calls) EXCEPT ![c] = Free]
            BY <1>5, <2>3 DEF MultiSuccess
        <3>2. FormType' /\ lost' \in BOOLEAN
            BY <1>1, <3>1 DEF FormType, HazardTypes
        <3>3. CallsType'
            BY <1>1, <3>1, DeafType DEF CallsType
        <3> QED
            BY <1>1, <2>1, <2>2, <3>2, <3>3, TypePartsAfter DEF HazardTypes, RowType, ClicksType
    <2>4. CASE calls[c].change # "remove"
        <3>1. /\ form' = IF form \in Forms
                         THEN [form EXCEPT !.set.enabled = calls[c].set.enabled, !.shared = FALSE]
                         ELSE form
              /\ Done(c)
              /\ UNCHANGED lost
            BY <1>5, <2>4 DEF MultiSuccess
        <3>2. c \in InFlight
            BY <1>5 DEF MultiSuccess, Answered
        <3>3. calls[c].set.enabled \in BOOLEAN
            BY <3>2, CallMember DEF Calls, Sets
        <3>4. FormType'
            BY <1>1, <3>1, <3>3 DEF FormType, Forms, Sets
        <3> QED
            BY <1>1, <1>2, <2>1, <2>2, <3>1, <3>4, TypePartsAfter
            DEF HazardTypes, RowType, ClicksType
    <2> QED
        BY <2>3, <2>4
<1>6. CASE OnSuccess(c)
    <2>1. UNCHANGED <<row, clicks, lost, crossed>> /\ CallsType'
        BY <1>2, <1>6 DEF OnSuccess
    <2>2. CASE calls[c].heard
        <3>1. TreeTypes' /\ swallowed' \in BOOLEAN
            BY <1>6, <2>2, ReloadType DEF OnSuccess
        <3>2. FormType'
            <4> DEFINE new == [set |-> NewSet, shared |-> FALSE,
                               upToDate |-> row = NewSet /\ Unserved = {}]
            <4>1. new \in Forms
                BY SetTypes DEF Forms
            <4>2. form' = IF calls[c].change = "create" THEN new ELSE Unshared(form)
                BY <1>6, <2>2 DEF OnSuccess
            <4> HIDE DEF new
            <4> QED
                BY <1>3, <4>1, <4>2 DEF FormType
        <3> QED
            BY <1>1, <2>1, <3>1, <3>2, TypePartsAfter DEF HazardTypes, RowType, ClicksType
    <2>3. CASE ~calls[c].heard
        <3>1. UNCHANGED <<treeVars, form, swallowed>>
            BY <1>6, <2>3 DEF OnSuccess
        <3> QED
            BY <1>1, <2>1, <3>1, TypePartsAfter
            DEF TreeTypes, FormType, HazardTypes, RowType, ClicksType, treeVars
    <2> QED
        BY <2>2, <2>3
<1>7. CASE OtherAnswer(c)
    <2>1. CallsType' /\ UNCHANGED <<row, treeVars, form, clicks, hazardVars>>
        BY <1>2, <1>7 DEF OtherAnswer
    <2> QED
        BY <1>1, <2>1, TypePartsAfter
        DEF TreeTypes, FormType, HazardTypes, RowType, ClicksType, treeVars, hazardVars
<1>8. CASE CallFails(c)
    <2>1. CallsType' /\ lost' = TRUE
          /\ UNCHANGED <<row, treeVars, form, clicks, swallowed, crossed>>
        BY <1>2, <1>8 DEF CallFails
    <2> QED
        BY <1>1, <2>1, TypePartsAfter
        DEF TreeTypes, FormType, HazardTypes, RowType, ClicksType, treeVars
<1> QED
    BY <1>4, <1>5, <1>6, <1>7, <1>8 DEF Answer

LEMMA TreeStepTyped ==
    ASSUME TypeOK, TreeStep \/ \E i \in DOMAIN lists : ListFails(i)
    PROVE  TypeOK'
<1> Next
    BY DEF Next
<1>1. TreeTypes /\ CallsType /\ FormType /\ HazardTypes /\ RowType /\ ClicksType
    BY TypeParts
<1>2. ASSUME NEW i \in DOMAIN lists, ServeList(i) PROVE TypeOK'
    <2>1. PICK answer \in {[at |-> "served", read |-> IF Exists THEN {row} ELSE {}],
                           [at |-> "failed", read |-> {}]} :
            lists' = [lists EXCEPT ![i] = answer]
        BY <1>2 DEF ServeList
    <2>2. answer \in ListTypes
        BY DEF ListTypes, Exists
    <2>3. lists' \in Seq(ListTypes)
        BY <1>1, <2>1, <2>2, ExceptSeq, LenProperties DEF TreeTypes
    <2>4. UNCHANGED <<row, nodes, loading, loaded, waiters, form, calls, clicks, hazardVars>>
        BY <1>2 DEF ServeList
    <2> QED
        BY <1>1, <2>3, <2>4, TypePartsAfter
        DEF TreeTypes, CallsType, FormType, HazardTypes, RowType, ClicksType, hazardVars
<1>3. ASSUME NEW i \in DOMAIN lists, HandleResponse(i) PROVE TypeOK'
    <2>1. /\ lists' \in Seq(ListTypes) /\ loading' = FALSE /\ loaded' = TRUE
        BY <1>3, CompleteType DEF HandleResponse
    <2>2. nodes' \in Seq(Nodes)
        <3>1. lists[i].read \subseteq Sets
            BY ListMember DEF ListTypes
        <3>2. \A s \in lists[i].read : Append(nodes, Leaf(s)) \in Seq(Nodes)
            BY <1>1, <3>1, NodeTypes, AppendProperties DEF TreeTypes
        <3> QED
            BY <1>1, <1>3, <3>2 DEF HandleResponse, TreeTypes
    <2>3. UNCHANGED <<row, waiters, form, calls, clicks, hazardVars>>
        BY <1>3 DEF HandleResponse
    <2> QED
        BY <1>1, <2>1, <2>2, <2>3, TypePartsAfter
        DEF TreeTypes, CallsType, FormType, HazardTypes, RowType, ClicksType, hazardVars
<1>4. ASSUME NEW i \in DOMAIN lists, HandleFailure(i) PROVE TypeOK'
    <2>1. /\ lists' \in Seq(ListTypes) /\ loading' = FALSE /\ loaded' = TRUE
        BY <1>4, CompleteType DEF HandleFailure
    <2>2. lost' = TRUE
          /\ UNCHANGED <<row, nodes, waiters, form, calls, clicks, swallowed, crossed>>
        BY <1>4 DEF HandleFailure
    <2> QED
        BY <1>1, <2>1, <2>2, TypePartsAfter
        DEF TreeTypes, CallsType, FormType, HazardTypes, RowType, ClicksType
<1>5. CASE WaiterWakes
    <2>1. waiters' \in Nat
        BY <1>1, <1>5 DEF WaiterWakes, TreeTypes
    <2>2. UNCHANGED <<row, nodes, loading, loaded, lists, form, calls, clicks, hazardVars>>
        BY <1>5 DEF WaiterWakes
    <2> QED
        BY <1>1, <2>1, <2>2, TypePartsAfter
        DEF TreeTypes, CallsType, FormType, HazardTypes, RowType, ClicksType, hazardVars
<1>6. ASSUME NEW i \in DOMAIN lists, ListFails(i) PROVE TypeOK'
    <2>1. [lists[i] EXCEPT !.at = "vanished"] \in ListTypes
        BY ListMember DEF ListTypes
    <2>2. lists' = [lists EXCEPT ![i] = [lists[i] EXCEPT !.at = "vanished"]]
        BY <1>6 DEF ListFails
    <2>3. lists' \in Seq(ListTypes)
        BY <1>1, <2>1, <2>2, ExceptSeq, LenProperties DEF TreeTypes
    <2>4. lost' = TRUE
          /\ UNCHANGED <<row, nodes, loading, loaded, waiters, form, calls, clicks,
                         swallowed, crossed>>
        BY <1>6 DEF ListFails
    <2> QED
        BY <1>1, <2>3, <2>4, TypePartsAfter
        DEF TreeTypes, CallsType, FormType, HazardTypes, RowType, ClicksType
<1> QED
    BY <1>2, <1>3, <1>4, <1>5, <1>6 DEF TreeStep

LEMMA TypeStep == TypeOK /\ [Next]_vars => TypeOK'
<1> SUFFICES ASSUME TypeOK, [Next]_vars PROVE TypeOK'
    OBVIOUS
<1>1. CASE UNCHANGED vars
    BY <1>1 DEF vars, TypeOK
<1> QED
    BY <1>1, ClicksTyped, ServeTyped, AnswerTyped, TreeStepTyped DEF Next

\* Every state of the console, of the calls in flight and of the server has its type,
\* for any number of calls in flight and actions of the administrator.
THEOREM ConsoleTypes == Spec => []TypeOK
BY TypeInit, TypeStep, PTL DEF Spec

-----------------------------------------------------------------------------
(* The load of the tree                                                           *)

\* The leaves are the same, where they are apart.
LeavesKept ==
    /\ DOMAIN nodes' = DOMAIN nodes /\ Len(nodes') = Len(nodes)
    /\ \A i \in DOMAIN nodes : nodes'[i].attr = nodes[i].attr
PlacesKept == \A i \in DOMAIN nodes : nodes'[i].place = nodes[i].place
TreeKept == LeavesKept /\ UNCHANGED <<loading, loaded, lists>>

LEMMA EqualLeaves == UNCHANGED nodes => LeavesKept /\ PlacesKept
BY DEF LeavesKept, PlacesKept

LEMMA StatusKeepsLeaves ==
    ASSUME TypeOK, NEW enabled \in BOOLEAN, UpdateStatus(enabled)
    PROVE  LeavesKept /\ PlacesKept
<1>1. CASE form \in Forms /\ form.shared
    <2>1. nodes' = [i \in DOMAIN nodes |-> [nodes[i] EXCEPT !.menu.enabled = enabled]]
        BY <1>1 DEF UpdateStatus
    <2>2. \A i \in DOMAIN nodes : nodes'[i].attr = nodes[i].attr /\ nodes'[i].place = nodes[i].place
        BY <2>1, NodeMember DEF Nodes
    <2>3. DOMAIN nodes' = DOMAIN nodes
        BY <2>1
    <2> QED
        BY <2>2, <2>3, StatusType DEF LeavesKept, PlacesKept
<1>2. CASE ~(form \in Forms /\ form.shared)
    BY <1>2, EqualLeaves DEF UpdateStatus
<1> QED
    BY <1>1, <1>2

LEMMA PathKeepsLeaves ==
    ASSUME TypeOK, NEW path \in Paths, NEW leaves \in Seq(Nodes), UpdatePath(path, leaves)
    PROVE  /\ DOMAIN nodes' = DOMAIN leaves /\ Len(nodes') = Len(leaves)
           /\ \A i \in DOMAIN leaves :
                nodes'[i].attr = leaves[i].attr /\ nodes'[i].place = leaves[i].place
<1>1. CASE form \in Forms /\ form.shared
    <2>1. nodes' = [i \in DOMAIN leaves |-> [leaves[i] EXCEPT !.menu.path = path]]
        BY <1>1 DEF UpdatePath
    <2>2. \A i \in DOMAIN leaves : leaves[i] \in Nodes
        BY ElementOfSeq, LenProperties
    <2>3. \A i \in DOMAIN leaves :
            nodes'[i].attr = leaves[i].attr /\ nodes'[i].place = leaves[i].place
        BY <2>1, <2>2 DEF Nodes
    <2>4. DOMAIN nodes' = DOMAIN leaves
        BY <2>1
    <2> QED
        BY <2>3, <2>4, PathType
<1>2. CASE ~(form \in Forms /\ form.shared)
    BY <1>2 DEF UpdatePath
<1> QED
    BY <1>1, <1>2

\* A leaf that is dropped, and what is sent.
LEMMA Dropped ==
    ASSUME TypeOK, NodeDropped
    PROVE  /\ TreeKept
           /\ \E i \in DOMAIN nodes, path \in Paths :
                /\ nodes'[i].place = path
                /\ \A j \in DOMAIN nodes : j # i => nodes'[j].place = nodes[j].place
                /\ \/ Send(Call("move", [nodes[i].attr EXCEPT !.path = path], FALSE), calls)
                   \/ path = nodes[i].attr.path /\ UNCHANGED <<calls, crossed>>
<1>1. PICK i \in DOMAIN nodes, path \in Paths :
        LET leaves == [nodes EXCEPT ![i].place = path] IN
        IF path # nodes[i].attr.path
        THEN /\ Send(Call("move", [nodes[i].attr EXCEPT !.path = path], FALSE), calls)
             /\ UpdatePath(path, leaves)
        ELSE nodes' = leaves /\ UNCHANGED <<form, calls, crossed>>
    BY DEF NodeDropped
<1> DEFINE leaves == [nodes EXCEPT ![i].place = path]
<1>2. DOMAIN leaves = DOMAIN nodes /\ leaves = [j \in DOMAIN nodes |-> leaves[j]]
    OBVIOUS
<1>3. \A j \in DOMAIN nodes :
        /\ leaves[j] \in Nodes /\ leaves[j].attr = nodes[j].attr
        /\ leaves[j].place = IF j = i THEN path ELSE nodes[j].place
    BY NodeMember DEF Nodes
<1>4. leaves \in Seq(Nodes) /\ Len(leaves) = Len(nodes)
    <2>1. \A j \in DOMAIN nodes : leaves[j] \in Nodes
        BY <1>3
    <2> HIDE DEF leaves
    <2> QED
        BY <1>2, <2>1, Mapped DEF TypeOK
<1>5. CASE path # nodes[i].attr.path
    <2>1. /\ Send(Call("move", [nodes[i].attr EXCEPT !.path = path], FALSE), calls)
          /\ UpdatePath(path, leaves)
        BY <1>1, <1>5
    <2> HIDE DEF leaves
    <2>2. /\ DOMAIN nodes' = DOMAIN leaves /\ Len(nodes') = Len(leaves)
          /\ \A j \in DOMAIN leaves :
                nodes'[j].attr = leaves[j].attr /\ nodes'[j].place = leaves[j].place
        BY <1>4, <2>1, PathKeepsLeaves
    <2>3. TreeKept
        BY <1>2, <1>3, <1>4, <2>2 DEF TreeKept, LeavesKept, NodeDropped
    <2>4. \A j \in DOMAIN nodes : nodes'[j].place = IF j = i THEN path ELSE nodes[j].place
        BY <1>2, <1>3, <2>2
    <2>5. /\ nodes'[i].place = path
          /\ \A j \in DOMAIN nodes : j # i => nodes'[j].place = nodes[j].place
        BY <2>4
    <2> QED
        BY <2>1, <2>3, <2>5
<1>6. CASE path = nodes[i].attr.path
    <2>1. nodes' = leaves /\ UNCHANGED <<form, calls, crossed>>
        BY <1>1, <1>6
    <2> HIDE DEF leaves
    <2> QED
        BY <1>2, <1>3, <1>4, <1>6, <2>1 DEF TreeKept, LeavesKept, NodeDropped
<1> QED
    BY <1>5, <1>6

\* The steps that leave the tree alone, but for the menus of its leaves.
Aside ==
    \/ ChangeStatus \/ ConfirmDeleteContentSet \/ DoMultiAction \/ EditContentSet
    \/ AddContentSetForm \/ Submit \/ CloseForm \/ WaiterWakes
    \/ \E c \in Slots : Serve(c) \/ OtherAnswer(c) \/ CallFails(c)
                       \/ (OnSuccess(c) /\ ~calls[c].heard)
    \/ UNCHANGED vars

LEMMA AsideKeepsTree ==
    ASSUME TypeOK, Aside
    PROVE  TreeKept /\ PlacesKept
<1>1. CASE ChangeStatus
    <2>1. PICK i \in DOMAIN nodes :
            UpdateStatus([nodes[i].menu EXCEPT !.enabled = ~nodes[i].menu.enabled].enabled)
        BY <1>1 DEF ChangeStatus
    <2>2. [nodes[i].menu EXCEPT !.enabled = ~nodes[i].menu.enabled].enabled \in BOOLEAN
        BY NodeMember, NodeTypes DEF Sets
    <2>3. LeavesKept /\ PlacesKept
        BY <2>1, <2>2, StatusKeepsLeaves
    <2> QED
        BY <1>1, <2>3 DEF TreeKept, ChangeStatus
<1>2. CASE ~ChangeStatus
    <2>1. UNCHANGED <<nodes, loading, loaded, lists>>
        BY <1>2
        DEF Aside, ConfirmDeleteContentSet, DoMultiAction, EditContentSet, AddContentSetForm,
            Submit, CloseForm, WaiterWakes, Serve, ServeChange, ServeSave, ReadMove, WriteMove,
            RefuseMove, OtherAnswer, CallFails, OnSuccess, vars, treeVars
    <2> QED
        BY <2>1, EqualLeaves DEF TreeKept
<1> QED
    BY <1>1, <1>2

\* Only a reload forgets that a move was refused.
LEMMA StrayedStays == Aside /\ strayed => strayed'
BY DEF Aside, ChangeStatus, ConfirmDeleteContentSet, DoMultiAction, EditContentSet,
       AddContentSetForm, Submit, CloseForm, WaiterWakes, Serve, ServeChange, ServeSave,
       ReadMove, WriteMove, RefuseMove, OtherAnswer, CallFails, OnSuccess, vars, hazardVars,
       refusalVars

Reloads ==
    \/ RefreshTrees
    \/ \E c \in Slots : StatusChanged(c) \/ MultiSuccess(c) \/ (OnSuccess(c) /\ calls[c].heard)

LEMMA ReloadsReload == Reloads => Reload
BY DEF Reloads, RefreshTrees, StatusChanged, MultiSuccess, OnSuccess

LEMMA NextParts ==
    [Next]_vars <=>
        \/ Aside \/ NodeDropped \/ Reloads
        \/ \E i \in DOMAIN lists :
            ServeList(i) \/ HandleResponse(i) \/ HandleFailure(i) \/ ListFails(i)
BY DEF Next, Clicks, Serve, Answer, TreeStep, Aside, Reloads

LEMMA LoadInit == Init => LoadInv
BY EmptySeq DEF Init, LoadInv, NoDuplicates, LoadingIsAwaited

LEMMA NodesLen == TypeOK => /\ Len(nodes) \in Nat /\ DOMAIN nodes = 1..Len(nodes)
                            /\ (nodes = <<>> <=> Len(nodes) = 0)
BY EmptySeq, LenProperties DEF TypeOK

LEMMA ListsLen == TypeOK => Len(lists) \in Nat /\ DOMAIN lists = 1..Len(lists)
BY LenProperties DEF TypeOK

LEMMA LoadKept ==
    ASSUME TypeOK, TypeOK', LoadInv, TreeKept
    PROVE  LoadInv'
<1>1. /\ Len(nodes') \in Nat /\ DOMAIN nodes' = 1..Len(nodes')
      /\ (nodes' = <<>> <=> Len(nodes') = 0)
    BY EmptySeq, LenProperties DEF TypeOK
<1>2. nodes = <<>> => nodes' = <<>>
    BY <1>1, NodesLen DEF TreeKept, LeavesKept
<1> QED
    BY <1>2 DEF LoadInv, NoDuplicates, LoadingIsAwaited, TreeKept, LeavesKept

LEMMA LoadStep ==
    ASSUME TypeOK, TypeOK', LoadInv, [Next]_vars
    PROVE  LoadInv'
<1>1. CASE Aside
    BY <1>1, AsideKeepsTree, LoadKept
<1>2. CASE NodeDropped
    BY <1>2, Dropped, LoadKept
<1>3. CASE Reloads
    <2>1. nodes' = <<>> /\ Expand
        BY <1>3, ReloadsReload DEF Reload
    <2>2. Len(nodes') <= 1
        BY <2>1, EmptySeq
    <2>3. CASE loading
        BY <2>1, <2>2, <2>3 DEF Expand, LoadInv, NoDuplicates, LoadingIsAwaited
    <2>4. CASE ~loading
        <3>1. loading' = TRUE /\ lists' = Append(lists, Sent)
            BY <2>1, <2>4 DEF Expand
        <3>2. Sent \in ListTypes /\ lists \in Seq(ListTypes) /\ Len(lists) = 0
            BY <2>4 DEF Sent, ListTypes, TypeOK, LoadInv, LoadingIsAwaited
        <3>3. Len(lists') = 1
            BY <3>1, <3>2, AppendProperties
        <3> QED
            BY <2>1, <2>2, <3>1, <3>3 DEF LoadInv, NoDuplicates, LoadingIsAwaited
    <2> QED
        BY <2>3, <2>4
<1>4. ASSUME NEW i \in DOMAIN lists, ServeList(i) \/ ListFails(i) PROVE LoadInv'
    <2>1. PICK answer : lists' = [lists EXCEPT ![i] = answer]
        BY <1>4 DEF ServeList, ListFails
    <2>2. DOMAIN lists' = DOMAIN lists
        BY <2>1
    <2>3. Len(lists') = Len(lists)
        BY <2>2, ListsLen, LenProperties DEF TypeOK
    <2>4. UNCHANGED <<nodes, loading>>
        BY <1>4 DEF ServeList, ListFails
    <2> QED
        BY <2>3, <2>4 DEF LoadInv, NoDuplicates, LoadingIsAwaited
<1>5. ASSUME NEW i \in DOMAIN lists, HandleResponse(i) \/ HandleFailure(i) PROVE LoadInv'
    <2>1. Len(lists') = Len(lists) - 1 /\ loading' = FALSE
        BY <1>5, CompleteType DEF HandleResponse, HandleFailure
    <2>2. loading /\ Len(lists) = 1
        BY ListsLen DEF LoadInv, LoadingIsAwaited
    <2>3. nodes = <<>> /\ <<>> \in Seq(Nodes) /\ Len(<<>>) = 0
        BY <2>2, EmptySeq DEF LoadInv
    <2>4. nodes' = <<>> \/ \E s \in lists[i].read : nodes' = Append(<<>>, Leaf(s))
        BY <1>5, <2>3 DEF HandleResponse, HandleFailure
    <2>5. \A s \in lists[i].read : Leaf(s) \in Nodes
        BY ListMember, NodeTypes DEF ListTypes
    <2>6. Len(nodes') <= 1
        <3>1. \A n \in Nodes : Len(Append(<<>>, n)) = 1
            BY <2>3, AppendProperties
        <3>2. nodes' = <<>> \/ \E n \in Nodes : nodes' = Append(<<>>, n)
            BY <2>4, <2>5
        <3>3. Len(nodes') \in {0, 1}
            BY <2>3, <3>1, <3>2
        <3> QED
            BY <3>3
    <2>7. Len(lists') = 0
        BY <2>1, <2>2
    <2> QED
        BY <2>1, <2>6, <2>7 DEF LoadInv, NoDuplicates, LoadingIsAwaited
<1> QED
    BY <1>1, <1>2, <1>3, <1>4, <1>5, NextParts

LEMMA LoadInvariance == Spec => [](TypeOK /\ LoadInv)
<1>1. Init => TypeOK /\ LoadInv
    BY TypeInit, LoadInit
<1>2. TypeOK /\ LoadInv /\ [Next]_vars => (TypeOK /\ LoadInv)'
    BY TypeStep, LoadStep
<1> QED
    BY <1>1, <1>2, PTL DEF Spec

\* The content set is in the tree at most once, however reloads and their answers fall
\* (AsyncTreeNode.expand, DWRTreeLoader.processResponse).
THEOREM LeafIsUnique == Spec => []NoDuplicates
<1>1. TypeOK /\ LoadInv => NoDuplicates
    BY DEF LoadInv
<1> QED
    BY <1>1, LoadInvariance, PTL

\* A tree that is loading has exactly one call out, one that is not has none
\* (AsyncTreeNode.expand, loadComplete).
THEOREM LoadIsAwaited == Spec => []LoadingIsAwaited
<1>1. TypeOK /\ LoadInv => LoadingIsAwaited
    BY DEF LoadInv
<1> QED
    BY <1>1, LoadInvariance, PTL

-----------------------------------------------------------------------------
(* What a step does to the calls                                                  *)

CallsKept(D) ==
    \A d \in D : /\ d \in InFlight' /\ calls'[d].at = calls[d].at
                 /\ calls'[d].change = calls[d].change /\ calls'[d].set = calls[d].set
                 /\ calls'[d].multi = calls[d].multi
HearingKept(D) ==
    ~lost' => ~lost /\ \A d \in D : calls[d].change \in {"create", "save"} /\ calls[d].heard
                                   => calls'[d].heard

Quiet == /\ InFlight' = InFlight /\ CallsKept(InFlight) /\ HearingKept(InFlight)
         /\ row' = row /\ crossed' = crossed
Sends(s) ==
    /\ s \in Slots /\ s \notin InFlight /\ InFlight' = InFlight \cup {s}
    /\ CallsKept(InFlight) /\ HearingKept(InFlight)
    /\ calls'[s].at = "sent" /\ calls'[s].heard
    /\ row' = row
    /\ crossed' = (crossed \/ \E d \in Unserved : Conflict(calls[d], calls'[s]))
Finishes(c) ==
    /\ c \in InFlight /\ InFlight' = InFlight \ {c}
    /\ CallsKept(InFlight \ {c}) /\ HearingKept(InFlight \ {c})
    /\ row' = row /\ crossed' = crossed
\* The server takes a call one step further.
Serves(c) ==
    /\ c \in Unserved /\ InFlight' = InFlight
    /\ CallsKept(InFlight \ {c}) /\ HearingKept(InFlight)
    /\ calls'[c].change = calls[c].change /\ calls'[c].set.path = calls[c].set.path
    /\ calls'[c].multi = calls[c].multi
    /\ calls'[c].at = "read" => calls[c].change = "move" /\ row # None
    /\ row # None => row' # None
    /\ calls'[c].set = calls[c].set \/ calls[c].change = "move"
    /\ UNCHANGED <<nodes, lists, loaded, lost, swallowed, crossed>>

LEMMA SameCalls ==
    ASSUME UNCHANGED <<calls, row, crossed>>, (lost' = lost) \/ lost'
    PROVE  Quiet
BY DEF Quiet, InFlight, CallsKept, HearingKept

LEMMA DeafCalls ==
    ASSUME TypeOK
    PROVE  /\ \A d \in InFlight :
                /\ Deaf[d] \in Calls /\ Deaf[d].at = calls[d].at
                /\ Deaf[d].change = calls[d].change /\ Deaf[d].set = calls[d].set
                /\ Deaf[d].multi = calls[d].multi
           /\ \A d \in Slots \ InFlight : Deaf[d] = Free
           /\ DOMAIN Deaf = Slots
BY CallMember DEF Deaf, InFlight, Calls

LEMMA SendSends ==
    ASSUME TypeOK, NEW before, NEW call \in Calls, Send(call, before),
           \/ before = calls /\ lost' = lost
           \/ before = Deaf /\ lost' = (lost \/ Saving),
           call.at = "sent", call.heard, row' = row
    PROVE  \E s \in Slots : Sends(s) /\ calls'[s] = call
<1>1. PICK s \in Slots :
        /\ calls[s] = Free
        /\ calls' = [before EXCEPT ![s] = call]
        /\ crossed' = (crossed \/ \E d \in Unserved : Conflict(calls[d], call))
    BY DEF Send
<1>2. s \notin InFlight
    BY <1>1 DEF InFlight
<1>3. DOMAIN before = Slots
    BY DeafCalls DEF TypeOK
<1>4. calls'[s] = call /\ \A d \in Slots : d # s => calls'[d] = before[d]
    BY <1>1, <1>3
<1>5. \A d \in InFlight :
        /\ before[d] # Free /\ before[d].at = calls[d].at
        /\ before[d].change = calls[d].change /\ before[d].set = calls[d].set
        /\ before[d].multi = calls[d].multi
    BY DeafCalls, NamesAssumption DEF InFlight
<1>6. \A d \in Slots \ InFlight : before[d] = Free
    BY DeafCalls DEF InFlight
<1>7. InFlight' = InFlight \cup {s}
    BY <1>2, <1>4, <1>5, <1>6, NamesAssumption DEF InFlight
<1>8. \A d \in InFlight : d \in Slots /\ d # s
    BY <1>2 DEF InFlight
<1>9. CallsKept(InFlight)
    BY <1>4, <1>5, <1>7, <1>8 DEF CallsKept
<1>10. HearingKept(InFlight)
    <2>1. CASE before = calls /\ lost' = lost
        BY <1>4, <1>8, <2>1 DEF HearingKept
    <2>2. CASE before = Deaf /\ lost' = (lost \/ Saving)
        BY <2>2 DEF HearingKept, Saving
    <2> QED
        BY <2>1, <2>2
<1> QED
    BY <1>1, <1>2, <1>4, <1>7, <1>9, <1>10 DEF Sends

LEMMA DoneFinishes ==
    ASSUME TypeOK, NEW c \in InFlight, NEW before, calls' = [before EXCEPT ![c] = Free],
           \/ before = calls /\ (lost' = lost \/ lost')
           \/ before = Deaf /\ lost' = (lost \/ Saving),
           UNCHANGED <<row, crossed>>
    PROVE  Finishes(c)
<1>1. c \in Slots /\ DOMAIN before = Slots
    BY DeafCalls DEF TypeOK, InFlight
<1>2. calls'[c] = Free /\ \A d \in Slots : d # c => calls'[d] = before[d]
    BY <1>1
<1>3. \A d \in InFlight :
        /\ before[d] # Free /\ before[d].at = calls[d].at
        /\ before[d].change = calls[d].change /\ before[d].set = calls[d].set
        /\ before[d].multi = calls[d].multi
    BY DeafCalls, NamesAssumption DEF InFlight
<1>4. \A d \in Slots \ InFlight : before[d] = Free
    BY DeafCalls DEF InFlight
<1>5. InFlight' = InFlight \ {c}
    BY <1>2, <1>3, <1>4 DEF InFlight
<1>6. \A d \in InFlight : d \in Slots
    BY DEF InFlight
<1>7. CallsKept(InFlight \ {c})
    BY <1>2, <1>3, <1>5, <1>6 DEF CallsKept
<1>8. HearingKept(InFlight \ {c})
    <2>1. CASE before = calls /\ (lost' = lost \/ lost')
        BY <1>2, <1>6, <2>1 DEF HearingKept
    <2>2. CASE before = Deaf /\ lost' = (lost \/ Saving)
        BY <2>2 DEF HearingKept, Saving
    <2> QED
        BY <2>1, <2>2
<1> QED
    BY <1>5, <1>7, <1>8 DEF Finishes

LEMMA ServeServes ==
    ASSUME TypeOK, NEW c \in Slots, Serve(c)
    PROVE  Serves(c)
<1>1. c \in InFlight /\ calls[c] \in Calls /\ calls[c].at \in {"sent", "read"}
    BY CallMember DEF Serve, ServeChange, ServeSave, ReadMove, WriteMove, RefuseMove, Unserved
<1>2. UNCHANGED <<nodes, lists, loaded, lost, swallowed, crossed>>
    BY DEF Serve, ServeChange, ServeSave, ReadMove, WriteMove, RefuseMove, treeVars, hazardVars
<1>3. PICK at \in {"read", "served", "refused"}, set \in Sets :
        /\ calls' = [calls EXCEPT ![c] = [@ EXCEPT !.at = at, !.set = set]]
        /\ set.path = calls[c].set.path
        /\ set = calls[c].set \/ calls[c].change = "move"
        /\ at = "read" => calls[c].change = "move" /\ row # None
    <2>1. CASE ServeChange(c) \/ ServeSave(c) \/ WriteMove(c) \/ RefuseMove(c)
        <3>1. \E at \in {"served", "refused"} : At(c, at)
            BY <2>1 DEF ServeChange, ServeSave, WriteMove, RefuseMove
        <3>2. PICK at \in {"served", "refused"} : calls' = [calls EXCEPT ![c].at = at]
            BY <3>1 DEF At
        <3>3. calls' = [calls EXCEPT ![c] = [@ EXCEPT !.at = at, !.set = calls[c].set]]
            BY <1>1, <3>2 DEF Calls
        <3>4. calls[c].set \in Sets
            BY <1>1 DEF Calls
        <3> QED
            BY <3>3, <3>4
    <2>2. CASE ReadMove(c)
        <3> DEFINE new == [calls[c].set EXCEPT !.enabled = row.enabled]
        <3>1. calls' = [calls EXCEPT ![c] = [@ EXCEPT !.at = "read", !.set = new]]
            BY <1>1, <2>2 DEF ReadMove, Calls
        <3>2. new.path = calls[c].set.path
            BY <1>1 DEF Calls, Sets
        <3>3. calls[c].change = "move" /\ row # None
            BY <2>2, NamesAssumption DEF ReadMove, Exists
        <3>4. new \in Sets
            BY <1>1, <2>2 DEF ReadMove, Calls, Sets, Exists
        <3> HIDE DEF new
        <3> QED
            BY <3>1, <3>2, <3>3, <3>4
    <2> QED
        BY <2>1, <2>2 DEF Serve
<1>4. DOMAIN calls = Slots
    BY DEF TypeOK
<1>5. /\ \A d \in Slots : d # c => calls'[d] = calls[d]
      /\ calls'[c] = [calls[c] EXCEPT !.at = at, !.set = set]
    BY <1>3, <1>4
<1>6. calls'[c].at = at /\ calls'[c].set = set /\ calls'[c].change = calls[c].change
      /\ calls'[c].heard = calls[c].heard /\ calls'[c].multi = calls[c].multi
    BY <1>1, <1>5 DEF Calls
<1>7. calls'[c] # Free
    <2>1. calls'[c] \in Calls
        BY <1>1, <1>5 DEF Calls
    <2> QED
        BY <2>1, NamesAssumption
<1>8. InFlight' = InFlight
    BY <1>1, <1>5, <1>7 DEF InFlight
<1>9. CallsKept(InFlight \ {c})
    BY <1>5, <1>8 DEF CallsKept, InFlight
<1>10. HearingKept(InFlight)
    BY <1>2, <1>5, <1>6 DEF HearingKept, InFlight
<1>11. row # None => row' # None
    <2>1. calls[c].set # None
        BY <1>1, NamesAssumption DEF Calls
    <2>2. CASE ServeChange(c)
        <3>1. row' = row \/ row' = Gone \/ (Exists /\ row' \in Sets)
            BY <1>1, <2>2 DEF ServeChange, Change, Neglect, Exists, Calls, Sets
        <3> QED
            BY <3>1, NamesAssumption
    <2>3. CASE ~ServeChange(c)
        BY <2>1, <2>3 DEF Serve, ServeSave, ReadMove, WriteMove, RefuseMove
    <2> QED
        BY <2>2, <2>3
<1> QED
    BY <1>1, <1>2, <1>3, <1>6, <1>8, <1>9, <1>10, <1>11 DEF Serves, Unserved

\* A call whose end matters to nobody: it was not about to reload the tree.
Drops(c) == Finishes(c) /\ (~lost' => ~Awaited(c) /\ c \notin Unserved)

LEMMA AsideCalls ==
    ASSUME TypeOK, CallsInv, Aside
    PROVE  /\ swallowed' = swallowed
           /\ \/ Quiet
              \/ \E s \in Slots : Sends(s) /\ calls'[s].change # "move"
              \/ \E c \in Slots : Drops(c)
              \/ \E c \in Slots : Serve(c)
<1>1. swallowed' = swallowed
    BY DEF Aside, ChangeStatus, ConfirmDeleteContentSet, DoMultiAction, EditContentSet,
           AddContentSetForm, Submit, CloseForm, WaiterWakes, Serve, ServeChange, ServeSave,
           ReadMove, WriteMove, RefuseMove, OtherAnswer, CallFails, OnSuccess, vars, hazardVars
<1> DEFINE Sending == \E s \in Slots : Sends(s) /\ calls'[s].change # "move"
<1>2. ASSUME NEW call \in Calls, call.at = "sent", call.heard, call.change # "move",
             NEW before, Send(call, before), row' = row,
             \/ before = calls /\ lost' = lost
             \/ before = Deaf /\ lost' = (lost \/ Saving)
      PROVE  Sending
    BY <1>2, SendSends
<1>3. CASE ChangeStatus
    <2>1. PICK i \in DOMAIN nodes :
            LET set == [nodes[i].menu EXCEPT !.enabled = ~nodes[i].menu.enabled] IN
            Send(Call(IF set.enabled THEN "enable" ELSE "disable", set, FALSE), calls)
        BY <1>3 DEF ChangeStatus
    <2> DEFINE set == [nodes[i].menu EXCEPT !.enabled = ~nodes[i].menu.enabled]
               change == IF set.enabled THEN "enable" ELSE "disable"
    <2>2. set \in Sets
        BY NodeMember, NodeTypes DEF Sets
    <2>3. change \in {"enable", "disable"}
        OBVIOUS
    <2>4. Send(Call(change, set, FALSE), calls)
        BY <2>1
    <2> HIDE DEF set, change, Sending
    <2>5. Call(change, set, FALSE) \in Calls
        BY <2>2, <2>3, CallTypes DEF Changes
    <2>6. Sending
        BY <1>2, <1>3, <2>3, <2>4, <2>5 DEF ChangeStatus, Call
    <2> QED
        BY <1>1, <2>6 DEF Sending
<1>4. CASE ConfirmDeleteContentSet
    <2> DEFINE call == Call("remove", NewSet, FALSE)
               before == IF form \in Forms THEN Deaf ELSE calls
    <2>1. call \in Calls
        BY SetTypes, CallTypes DEF Changes
    <2>2. Send(call, before) /\ row' = row
        BY <1>4 DEF ConfirmDeleteContentSet
    <2>3. call.at = "sent" /\ call.heard /\ call.change # "move"
        BY DEF Call
    <2>4. \/ before = calls /\ lost' = lost
          \/ before = Deaf /\ lost' = (lost \/ Saving)
        BY <1>4 DEF ConfirmDeleteContentSet, Remove, TypeOK
    <2> HIDE DEF call, before, Sending
    <2>5. Sending
        BY <1>2, <2>1, <2>2, <2>3, <2>4
    <2> QED
        BY <1>1, <2>5 DEF Sending
<1>5. CASE DoMultiAction
    <2>1. PICK i \in DOMAIN nodes, change \in {"enable", "disable", "remove"} :
            Send(Call(change, [nodes[i].attr EXCEPT !.enabled = (change = "enable")], TRUE), calls)
        BY <1>5 DEF DoMultiAction
    <2> DEFINE set == [nodes[i].attr EXCEPT !.enabled = (change = "enable")]
               call == Call(change, set, TRUE)
    <2>2. set \in Sets
        BY NodeMember, NodeTypes, SetTypes
    <2>3. Send(call, calls) /\ row' = row /\ lost' = lost
        BY <1>5, <2>1 DEF DoMultiAction
    <2> HIDE DEF set, Sending
    <2>4. call \in Calls
        BY <2>2, CallTypes DEF Changes
    <2>5. call.at = "sent" /\ call.heard /\ call.change # "move"
        BY DEF Call
    <2> HIDE DEF call
    <2>6. Sending
        BY <1>2, <2>3, <2>4, <2>5
    <2> QED
        BY <1>1, <2>6 DEF Sending
<1>6. CASE Submit
    <2> DEFINE call == IF form = New THEN Call("create", NewSet, FALSE)
                       ELSE Call("save", form.set, FALSE)
    <2>1. form = New \/ form.set \in Sets
        BY <1>6 DEF Submit, TypeOK, Forms
    <2>2. call \in Calls
        BY <2>1, SetTypes, CallTypes DEF Changes
    <2>3. Send(call, calls) /\ row' = row /\ lost' = lost
        BY <1>6 DEF Submit
    <2>4. call.at = "sent" /\ call.heard /\ call.change # "move"
        BY DEF Call
    <2> HIDE DEF call, Sending
    <2>5. Sending
        BY <1>2, <2>2, <2>3, <2>4
    <2> QED
        BY <1>1, <2>5 DEF Sending
<1>7. CASE CloseForm
    <2>1. calls' = Deaf /\ lost' = (lost \/ Saving) /\ row' = row /\ crossed' = crossed
        BY <1>7 DEF CloseForm
    <2>2. InFlight' = InFlight
        BY <2>1, DeafCalls, NamesAssumption DEF InFlight
    <2>3. CallsKept(InFlight)
        BY <2>1, <2>2, DeafCalls DEF CallsKept
    <2>4. HearingKept(InFlight)
        BY <2>1 DEF HearingKept, Saving
    <2> QED
        BY <1>1, <2>1, <2>2, <2>3, <2>4 DEF Quiet
<1>8. CASE EditContentSet \/ AddContentSetForm \/ WaiterWakes \/ UNCHANGED vars
    <2>1. UNCHANGED <<calls, row, crossed, lost>>
        BY <1>8 DEF EditContentSet, AddContentSetForm, WaiterWakes, vars, hazardVars
    <2> QED
        BY <1>1, <2>1, SameCalls
<1>9. ASSUME NEW c \in Slots, OtherAnswer(c) \/ CallFails(c) \/ (OnSuccess(c) /\ ~calls[c].heard)
      PROVE  Drops(c)
    <2>1. /\ c \in InFlight /\ calls' = [calls EXCEPT ![c] = Free]
          /\ (lost' = lost) \/ lost'
          /\ UNCHANGED <<row, crossed>>
        BY <1>9 DEF OtherAnswer, CallFails, OnSuccess, Answered, Done, hazardVars
    <2>2. Finishes(c)
        BY <2>1, DoneFinishes
    <2>3. CASE OtherAnswer(c)
        BY <2>2, <2>3 DEF Drops, OtherAnswer, Answered, Awaited, Unserved
    <2>4. CASE CallFails(c)
        BY <2>2, <2>4 DEF Drops, CallFails
    <2>5. CASE OnSuccess(c) /\ ~calls[c].heard
        <3>1. lost' = lost /\ calls[c].change \in {"create", "save"} /\ ~calls[c].heard
            BY <2>5 DEF OnSuccess, Answered
        <3>2. lost'
            BY <2>1, <3>1 DEF CallsInv
        <3> QED
            BY <2>2, <3>2 DEF Drops
    <2> QED
        BY <1>9, <2>3, <2>4, <2>5
<1> QED
    BY <1>1, <1>3, <1>4, <1>5, <1>6, <1>7, <1>8, <1>9 DEF Aside

LEMMA ReloadCalls ==
    ASSUME TypeOK, Reloads
    PROVE  Quiet \/ \E c \in Slots : Finishes(c)
<1>1. CASE RefreshTrees
    BY <1>1, SameCalls DEF RefreshTrees
<1>2. ASSUME NEW c \in Slots, StatusChanged(c) \/ (OnSuccess(c) /\ calls[c].heard) PROVE Finishes(c)
    <2>1. /\ c \in InFlight /\ calls' = [calls EXCEPT ![c] = Free]
          /\ UNCHANGED <<row, crossed, lost>>
        BY <1>2 DEF StatusChanged, OnSuccess, Answered, Done
    <2> QED
        BY <2>1, DoneFinishes
<1>3. ASSUME NEW c \in Slots, MultiSuccess(c) PROVE Finishes(c)
    <2>1. c \in InFlight /\ UNCHANGED <<row, crossed>>
        BY <1>3 DEF MultiSuccess, Answered
    <2>2. CASE calls[c].change = "remove" /\ form \in Forms
        <3>1. calls' = [Deaf EXCEPT ![c] = Free] /\ lost' = (lost \/ Saving)
            BY <1>3, <2>2 DEF MultiSuccess
        <3> QED
            BY <2>1, <3>1, DoneFinishes
    <2>3. CASE ~(calls[c].change = "remove" /\ form \in Forms)
        <3>1. calls' = [calls EXCEPT ![c] = Free]
            BY <1>3, <2>3 DEF MultiSuccess, Done
        <3>2. lost' = lost
            BY <1>3, <2>3 DEF MultiSuccess, TypeOK
        <3> QED
            BY <2>1, <3>1, <3>2, DoneFinishes
    <2> QED
        BY <2>2, <2>3
<1> QED
    BY <1>1, <1>2, <1>3 DEF Reloads

LEMMA TreeCalls ==
    ASSUME NEW i \in DOMAIN lists,
           ServeList(i) \/ HandleResponse(i) \/ HandleFailure(i) \/ ListFails(i)
    PROVE  Quiet
BY SameCalls DEF ServeList, HandleResponse, HandleFailure, ListFails, hazardVars

LEMMA DropCalls ==
    ASSUME TypeOK, NodeDropped
    PROVE  /\ swallowed' = swallowed
           /\ \E i \in DOMAIN nodes, path \in Paths :
                /\ nodes'[i].place = path
                /\ \A j \in DOMAIN nodes : j # i => nodes'[j].place = nodes[j].place
                /\ \/ \E s \in Slots : /\ Sends(s) /\ calls'[s].change = "move"
                                     /\ calls'[s].set.path = path
                   \/ path = nodes[i].attr.path /\ Quiet
<1>1. row' = row /\ lost' = lost /\ swallowed' = swallowed
    BY DEF NodeDropped
<1>2. PICK i \in DOMAIN nodes, path \in Paths :
        /\ nodes'[i].place = path
        /\ \A j \in DOMAIN nodes : j # i => nodes'[j].place = nodes[j].place
        /\ \/ Send(Call("move", [nodes[i].attr EXCEPT !.path = path], FALSE), calls)
           \/ path = nodes[i].attr.path /\ UNCHANGED <<calls, crossed>>
    BY Dropped
<1> DEFINE set == [nodes[i].attr EXCEPT !.path = path]
<1>3. set \in Sets /\ set.path = path
    BY NodeMember, NodeTypes, SetTypes DEF Sets
<1>4. CASE Send(Call("move", set, FALSE), calls)
    <2> HIDE DEF set
    <2>1. Call("move", set, FALSE) \in Calls
        BY <1>3, CallTypes DEF Changes
    <2> DEFINE call == Call("move", set, FALSE)
    <2>2. call.at = "sent" /\ call.heard /\ call.change = "move" /\ call.set = set
        BY DEF Call
    <2> HIDE DEF call
    <2>3. \E s \in Slots : Sends(s) /\ calls'[s] = call
        BY <1>1, <1>4, <2>1, <2>2, SendSends DEF call
    <2> QED
        BY <1>1, <1>2, <1>3, <2>2, <2>3
<1>5. CASE path = nodes[i].attr.path /\ UNCHANGED <<calls, crossed>>
    <2>1. Quiet
        BY <1>1, <1>5, SameCalls
    <2> QED
        BY <1>1, <1>2, <1>5, <2>1
<1> QED
    BY <1>2, <1>4, <1>5

-----------------------------------------------------------------------------
(* The tree is fresh                                                              *)

LEMMA StepKinds ==
    ASSUME TypeOK, CallsInv, [Next]_vars
    PROVE  \/ Quiet
           \/ \E s \in Slots : Sends(s)
           \/ \E c \in Slots : Finishes(c)
           \/ \E c \in Slots : Serve(c)
<1>1. CASE Aside
    BY <1>1, AsideCalls DEF Drops
<1>2. CASE NodeDropped
    BY <1>2, DropCalls
<1>3. CASE Reloads
    BY <1>3, ReloadCalls
<1>4. CASE \E i \in DOMAIN lists :
            ServeList(i) \/ HandleResponse(i) \/ HandleFailure(i) \/ ListFails(i)
    BY <1>4, TreeCalls
<1> QED
    BY <1>1, <1>2, <1>3, <1>4, NextParts

LEMMA CallsStep ==
    ASSUME TypeOK, CallsInv, [Next]_vars
    PROVE  CallsInv'
<1>1. CASE Quiet
    BY <1>1 DEF CallsInv, Quiet, CallsKept, HearingKept, Unserved, Conflict
<1>2. ASSUME NEW s \in Slots, Sends(s) PROVE CallsInv'
    <2>1. /\ s \notin InFlight /\ InFlight' = InFlight \cup {s}
          /\ CallsKept(InFlight) /\ HearingKept(InFlight)
          /\ calls'[s].at = "sent" /\ calls'[s].heard /\ row' = row
          /\ crossed' = (crossed \/ \E d \in Unserved : Conflict(calls[d], calls'[s]))
        BY <1>2 DEF Sends
    <2>2. \A c \in InFlight' : calls'[c].at = "read" => calls'[c].change = "move" /\ row' # None
        BY <2>1 DEF CallsInv, CallsKept
    <2>3. ~lost' => \A c \in InFlight' :
            calls'[c].change \in {"create", "save"} => calls'[c].heard
        BY <2>1 DEF CallsInv, CallsKept, HearingKept
    <2>4. ASSUME ~crossed', NEW c \in Unserved', NEW d \in Unserved', c # d
          PROVE  ~Conflict(calls'[c], calls'[d])
        <3>1. \A e \in InFlight : e \in Unserved' => e \in Unserved
            BY <2>1 DEF Unserved, CallsKept
        <3>2. ~crossed /\ \A e \in Unserved : ~Conflict(calls[e], calls'[s])
            BY <2>1, <2>4
        <3>3. CASE c # s /\ d # s
            <4>1. c \in Unserved /\ d \in Unserved
                BY <2>1, <3>1, <3>3 DEF Unserved
            <4>2. ~Conflict(calls[c], calls[d])
                BY <2>4, <3>2, <4>1 DEF CallsInv
            <4> QED
                BY <2>1, <4>1, <4>2 DEF CallsKept, Conflict, Unserved
        <3>4. CASE d = s
            <4>1. c \in Unserved
                BY <2>1, <2>4, <3>1, <3>4 DEF Unserved
            <4>2. ~Conflict(calls[c], calls'[s])
                BY <3>2, <4>1
            <4> QED
                BY <2>1, <3>4, <4>1, <4>2 DEF CallsKept, Conflict, Unserved
        <3>5. CASE c = s
            <4>1. d \in Unserved
                BY <2>1, <2>4, <3>1, <3>5 DEF Unserved
            <4>2. ~Conflict(calls[d], calls'[s])
                BY <3>2, <4>1
            <4> QED
                BY <2>1, <3>5, <4>1, <4>2 DEF CallsKept, Conflict, Unserved
        <3> QED
            BY <3>3, <3>4, <3>5
    <2> QED
        BY <2>2, <2>3, <2>4 DEF CallsInv
<1>3. ASSUME NEW c \in Slots, Finishes(c) PROVE CallsInv'
    BY <1>3 DEF CallsInv, Finishes, CallsKept, HearingKept, Unserved, Conflict
<1>4. ASSUME NEW c \in Slots, Serve(c) PROVE CallsInv'
    <2>1. Serves(c)
        BY <1>4, ServeServes
    <2>2. \A d \in InFlight' : calls'[d].at = "read" => calls'[d].change = "move" /\ row' # None
        BY <2>1 DEF Serves, CallsInv, CallsKept
    <2>3. \A d \in InFlight : calls'[d].change = calls[d].change
        BY <2>1 DEF Serves, CallsKept
    <2>4. ~lost' => \A d \in InFlight' :
            calls'[d].change \in {"create", "save"} => calls'[d].heard
        BY <2>1, <2>3 DEF Serves, CallsInv, HearingKept
    <2>5. ASSUME ~crossed', NEW d \in Unserved', NEW e \in Unserved', d # e
          PROVE  ~Conflict(calls'[d], calls'[e])
        <3>1. d \in Unserved /\ e \in Unserved /\ d \in InFlight /\ e \in InFlight
            BY <2>1 DEF Serves, Unserved, CallsKept
        <3>2. ~Conflict(calls[d], calls[e])
            BY <2>1, <2>5, <3>1 DEF CallsInv, Serves
        <3>3. \A f \in {d, e} : calls'[f].set = calls[f].set \/ calls[f].change = "move"
            BY <2>1, <3>1 DEF Serves, CallsKept
        <3> QED
            BY <2>3, <3>1, <3>2, <3>3 DEF Conflict
    <2> QED
        BY <2>2, <2>4, <2>5 DEF CallsInv
<1> QED
    BY <1>1, <1>2, <1>3, <1>4, StepKinds

\* Nothing else changes the state while a move is between its two requests.
LEMMA MovesStep ==
    ASSUME TypeOK, CallsInv, MovesInv, [Next]_vars
    PROVE  MovesInv'
<1>1. CASE Quiet
    BY <1>1 DEF MovesInv, Quiet, CallsKept, Exists
<1>2. ASSUME NEW s \in Slots, Sends(s) PROVE MovesInv'
    BY <1>2 DEF MovesInv, Sends, CallsKept, Exists
<1>3. ASSUME NEW c \in Slots, Finishes(c) PROVE MovesInv'
    BY <1>3 DEF MovesInv, Finishes, CallsKept, Exists
<1>4. ASSUME NEW c \in Slots, Serve(c), ~crossed', NEW d \in InFlight',
             calls'[d].at = "read", Exists'
      PROVE  calls'[d].set.enabled = row'.enabled
    <2>1. Serves(c) /\ ~crossed
        BY <1>4, ServeServes DEF Serves
    <2>2. d \in InFlight /\ c \in InFlight /\ calls[c] \in Calls /\ c \in Unserved
        BY <1>4, <2>1, CallMember DEF Serves, Unserved
    <2>3. CASE d = c
        <3>1. ReadMove(c) /\ Exists
            <4>1. DOMAIN calls = Slots
                BY DEF TypeOK
            <4> QED
                BY <1>4, <2>2, <2>3, <4>1
                DEF Serve, ServeChange, ServeSave, WriteMove, ReadMove, RefuseMove, At, Calls
        <3>2. row' = row
            BY <3>1 DEF ReadMove
        <3>3. calls'[c].set.enabled = row.enabled
            <4>1. calls' = [calls EXCEPT ![c].at = "read", ![c].set.enabled = row.enabled]
                BY <3>1 DEF ReadMove
            <4>2. DOMAIN calls = Slots
                BY DEF TypeOK
            <4> QED
                BY <2>2, <4>1, <4>2 DEF Calls, Sets
        <3> QED
            BY <2>3, <3>2, <3>3
    <2>4. CASE d # c
        <3>1. /\ calls'[d].at = calls[d].at /\ calls'[d].change = calls[d].change
              /\ calls'[d].set = calls[d].set
            BY <2>1, <2>2, <2>4 DEF Serves, CallsKept
        <3>2. d \in Unserved /\ calls[d].at = "read" /\ calls[d].change = "move" /\ row # None
            BY <1>4, <2>2, <3>1 DEF CallsInv, Unserved
        <3>3. calls[c].change \in {"create", "remove"}
            BY <2>1, <2>2, <2>4, <3>2 DEF CallsInv, Conflict
        <3>4. Exists => calls[d].set.enabled = row.enabled
            BY <2>1, <2>2, <3>2 DEF MovesInv
        <3>5. row' = row
            <4>1. CASE ServeChange(c)
                BY <1>4, <3>3, <4>1, NamesAssumption DEF ServeChange, Change, Neglect, Exists
            <4>2. CASE ServeSave(c)
                BY <3>2, <3>3, <4>2 DEF ServeSave
            <4>3. CASE ReadMove(c)
                BY <4>3 DEF ReadMove
            <4>4. CASE WriteMove(c)
                BY <2>2, <3>3, <4>4 DEF WriteMove, CallsInv
            <4>5. CASE RefuseMove(c)
                BY <4>5 DEF RefuseMove
            <4> QED
                BY <1>4, <4>1, <4>2, <4>3, <4>4, <4>5 DEF Serve
        <3> QED
            BY <1>4, <3>1, <3>4, <3>5 DEF Exists
    <2> QED
        BY <2>3, <2>4
<1>5. ASSUME NEW c \in Slots, Serve(c) PROVE MovesInv'
    BY <1>4, <1>5 DEF MovesInv
<1> QED
    BY <1>1, <1>2, <1>3, <1>5, StepKinds

LEMMA ShownKept ==
    ASSUME TypeOK, TypeOK', Shows, TreeKept, Exists' = Exists,
           Exists => row'.enabled = row.enabled
    PROVE  Shows'
<1>1. nodes' = <<>> <=> nodes = <<>>
    BY NodesLen, EmptySeq, LenProperties DEF TypeOK, TreeKept, LeavesKept
<1>2. ASSUME loaded' PROVE \A i \in DOMAIN nodes' : nodes'[i].attr.enabled = row'.enabled
    <2>1. loaded /\ DOMAIN nodes' = DOMAIN nodes /\ \A i \in DOMAIN nodes : nodes'[i].attr = nodes[i].attr
        BY <1>2 DEF TreeKept, LeavesKept
    <2>2. DOMAIN nodes # {} => Exists
        BY <2>1, NodesLen DEF Shows
    <2> QED
        BY <2>1, <2>2 DEF Shows
<1>3. \A i \in DOMAIN lists : lists[i].at = "served" /\ lists[i].read # {} => Exists
    BY DEF Shows
<1>4. \A i \in DOMAIN lists : lists[i].at = "served" =>
        \A s \in lists[i].read : s.enabled = row'.enabled
    BY <1>3 DEF Shows
<1> QED
    BY <1>1, <1>2, <1>4 DEF Shows, TreeKept

\* A call that is answered without a reload changes nothing that the tree shows.
LEMMA AsideShows ==
    ASSUME TypeOK, TypeOK', CallsInv, MovesInv, ShownInv, Aside,
           ~lost', ~swallowed', ~crossed', \A c \in Slots : ~Awaited(c)'
    PROVE  Shows'
<1>1. TreeKept /\ swallowed' = swallowed
    BY AsideKeepsTree, AsideCalls
<1>2. CASE Quiet
    <2>1. ~lost /\ ~crossed /\ \A c \in Slots : ~Awaited(c)
        BY <1>2 DEF Quiet, HearingKept, CallsKept, Awaited
    <2>2. Shows
        BY <1>1, <2>1 DEF ShownInv
    <2> QED
        BY <1>1, <1>2, <2>2, ShownKept DEF Quiet, Exists
<1>3. ASSUME NEW s \in Slots, Sends(s) PROVE Shows'
    <2>1. ~lost /\ ~crossed /\ \A c \in Slots : ~Awaited(c)
        BY <1>3 DEF Sends, HearingKept, CallsKept, Awaited
    <2>2. Shows
        BY <1>1, <2>1 DEF ShownInv
    <2> QED
        BY <1>1, <1>3, <2>2, ShownKept DEF Sends, Exists
<1>4. ASSUME NEW c \in Slots, Drops(c) PROVE Shows'
    <2>1. ~lost /\ ~crossed /\ ~Awaited(c)
        BY <1>4 DEF Drops, Finishes, HearingKept
    <2>2. \A d \in Slots : ~Awaited(d)
        BY <1>4, <2>1 DEF Drops, Finishes, CallsKept, Awaited
    <2>3. Shows
        BY <1>1, <2>1, <2>2 DEF ShownInv
    <2> QED
        BY <1>1, <1>4, <2>3, ShownKept DEF Drops, Finishes, Exists
<1>5. ASSUME NEW c \in Slots, Serve(c) PROVE Shows'
    <2>1. Serves(c) /\ ~lost /\ ~crossed
        BY <1>5, ServeServes DEF Serves
    <2>2. c \in InFlight /\ calls[c] \in Calls /\ ~Awaited(c)
        BY <2>1, CallMember DEF Serves, Unserved, Awaited
    <2>3. \A d \in Slots : ~Awaited(d)
        BY <2>1, <2>2 DEF Serves, CallsKept, Awaited
    <2>4. Shows
        BY <1>1, <2>1, <2>3 DEF ShownInv
    <2>5. DOMAIN calls = Slots
        BY DEF TypeOK
    <2>6. calls'[c].at = "served" => calls[c].change = "move"
        BY <2>1, <2>2 DEF Serves, Awaited
    <2>7. Exists' = Exists /\ (Exists => row'.enabled = row.enabled)
        <3>1. CASE ServeChange(c)
            <4>1. calls'[c].at = "served" /\ calls[c].change # "move"
                BY <2>2, <2>5, <3>1 DEF ServeChange, At, Calls
            <4> QED
                BY <2>6, <4>1
        <3>2. CASE ServeSave(c)
            <4>1. row' = row \/ (At(c, "served") /\ calls[c].change # "move")
                BY <3>2 DEF ServeSave
            <4>2. At(c, "served") => calls'[c].at = "served"
                BY <2>2, <2>5 DEF At, Calls
            <4> QED
                BY <2>6, <4>1, <4>2 DEF Exists
        <3>3. CASE ReadMove(c)
            BY <3>3 DEF ReadMove, Exists
        <3>4. CASE WriteMove(c)
            BY <2>1, <2>2, <3>4 DEF WriteMove, Exists, Calls, MovesInv
        <3>5. CASE RefuseMove(c)
            BY <3>5 DEF RefuseMove, Exists
        <3> QED
            BY <1>5, <3>1, <3>2, <3>3, <3>4, <3>5 DEF Serve
    <2> QED
        BY <1>1, <2>4, <2>7, ShownKept
<1> QED
    BY <1>2, <1>3, <1>4, <1>5, AsideCalls

LEMMA ShownStep ==
    ASSUME TypeOK, TypeOK', LoadInv, CallsInv, MovesInv, ShownInv, [Next]_vars
    PROVE  ShownInv'
<1> SUFFICES ASSUME ~lost', ~swallowed', ~crossed', \A c \in Slots : ~Awaited(c)'
             PROVE  Shows'
    BY DEF ShownInv
<1>1. CASE Aside
    BY <1>1, AsideShows
<1>2. CASE NodeDropped
    <2>1. TreeKept /\ swallowed' = swallowed /\ row' = row
        BY <1>2, Dropped DEF NodeDropped
    <2>2. Quiet \/ \E s \in Slots : Sends(s)
        BY <1>2, DropCalls
    <2>3. ~lost /\ ~crossed /\ CallsKept(InFlight)
        <3>1. Quiet => ~lost /\ ~crossed /\ CallsKept(InFlight)
            BY DEF Quiet, HearingKept
        <3>2. \A s \in Slots : Sends(s) => ~lost /\ ~crossed /\ CallsKept(InFlight)
            BY DEF Sends, HearingKept
        <3> QED
            BY <2>2, <3>1, <3>2
    <2>4. \A c \in Slots : ~Awaited(c)
        BY <2>3 DEF CallsKept, Awaited
    <2>5. Shows
        BY <2>1, <2>3, <2>4 DEF ShownInv
    <2> QED
        BY <2>1, <2>5, ShownKept DEF Exists
<1>3. CASE Reloads
    <2>1. Reload
        BY <1>3, ReloadsReload
    <2>2. ~loading /\ loaded' = FALSE
        BY <2>1 DEF Reload
    <2>3. lists' = Append(lists, Sent) /\ Len(lists) = 0
        BY <2>1, <2>2 DEF Reload, Expand, LoadInv, LoadingIsAwaited
    <2>4. Sent \in ListTypes /\ lists \in Seq(ListTypes)
        BY DEF Sent, ListTypes, TypeOK
    <2>5. DOMAIN lists' = {1} /\ lists'[1] = Sent
        BY <2>3, <2>4, AppendProperties, LenProperties
    <2>6. lists'[1].at = "sent"
        BY <2>5 DEF Sent
    <2> QED
        BY <2>2, <2>5, <2>6 DEF Shows
<1>4. ASSUME NEW i \in DOMAIN lists,
             ServeList(i) \/ HandleResponse(i) \/ HandleFailure(i) \/ ListFails(i)
      PROVE  Shows'
    <2>1. ServeList(i) \/ HandleResponse(i)
        BY <1>4 DEF HandleFailure, ListFails
    <2>2. UNCHANGED <<row, calls, lost, swallowed, crossed>>
        BY <2>1 DEF ServeList, HandleResponse, hazardVars
    <2>3. \A c \in Slots : ~Awaited(c)
        BY <2>2 DEF Awaited, InFlight
    <2>4. Shows
        BY <2>2, <2>3 DEF ShownInv
    <2>5. loading /\ Len(lists) = 1 /\ nodes = <<>>
        BY ListsLen DEF LoadInv, LoadingIsAwaited
    <2>6. CASE ServeList(i)
        <3>1. PICK answer \in {[at |-> "served", read |-> IF Exists THEN {row} ELSE {}],
                               [at |-> "failed", read |-> {}]} :
                lists' = [lists EXCEPT ![i] = answer]
            BY <2>6 DEF ServeList
        <3>2. UNCHANGED <<nodes, loaded>>
            BY <2>6 DEF ServeList
        <3>3. answer.at = "served" => answer.read = IF Exists THEN {row} ELSE {}
            OBVIOUS
        <3>4. \A j \in DOMAIN lists' : j \in DOMAIN lists
                                     /\ lists'[j] = IF j = i THEN answer ELSE lists[j]
            BY <3>1
        <3>5. \A j \in DOMAIN lists' : lists'[j].at = "served" =>
                /\ lists'[j].read = {} <=> ~Exists
                /\ \A s \in lists'[j].read : s.enabled = row.enabled
            BY <2>4, <3>3, <3>4 DEF Shows
        <3> QED
            BY <2>2, <2>4, <3>2, <3>5 DEF Shows, Exists
    <2>7. CASE HandleResponse(i)
        <3>1. Len(lists') = 0 /\ lists' \in Seq(ListTypes)
            <4>1. Len(lists') = Len(lists) - 1 /\ lists' \in Seq(ListTypes)
                BY <2>7, CompleteType DEF HandleResponse
            <4> QED
                BY <2>5, <4>1
        <3>2. DOMAIN lists' = {}
            BY <3>1, LenProperties
        <3>3. lists[i].at = "served"
            BY <2>7 DEF HandleResponse
        <3>4. \/ lists[i].read = {} /\ nodes' = <<>>
              \/ \E s \in lists[i].read : nodes' = Append(<<>>, Leaf(s))
            BY <2>5, <2>7 DEF HandleResponse
        <3>5. CASE lists[i].read = {} /\ nodes' = <<>>
            <4>1. DOMAIN nodes' = {}
                BY <3>5, EmptySeq, LenProperties
            <4> QED
                BY <2>2, <2>4, <3>2, <3>3, <3>5, <4>1 DEF Shows, Exists
        <3>6. CASE \E s \in lists[i].read : nodes' = Append(<<>>, Leaf(s))
            <4>1. PICK s \in lists[i].read : nodes' = Append(<<>>, Leaf(s))
                BY <3>6
            <4>2. s \in Sets /\ Leaf(s) \in Nodes
                BY ListMember, NodeTypes DEF ListTypes
            <4>3. <<>> \in Seq(Nodes) /\ Len(<<>>) = 0
                BY EmptySeq
            <4>4. Len(nodes') = 1 /\ nodes'[1] = Leaf(s) /\ DOMAIN nodes' = 1..1
                BY <4>1, <4>2, <4>3, AppendProperties, LenProperties
            <4>5. nodes' # <<>> /\ Exists /\ s.enabled = row.enabled
                BY <2>4, <3>3, <4>3, <4>4 DEF Shows
            <4>6. \A j \in DOMAIN nodes' : nodes'[j].attr.enabled = row.enabled
                BY <4>4, <4>5 DEF Leaf
            <4> QED
                BY <2>2, <3>2, <4>5, <4>6 DEF Shows, Exists
        <3> QED
            BY <3>4, <3>5, <3>6
    <2> QED
        BY <2>1, <2>6, <2>7
<1> QED
    BY <1>1, <1>2, <1>3, <1>4, NextParts

LEMMA PlaceKept ==
    ASSUME TreeKept, PlacesKept, PlaceInv, ~lost, ~crossed,
           NEW i \in DOMAIN nodes', nodes'[i].place # nodes'[i].attr.path
    PROVE  /\ nodes'[i].place = nodes[i].place
           /\ \A c \in Unserved :
                calls[c].change = "move" => calls[c].set.path = nodes'[i].place
           /\ \/ \E c \in Slots : Awaited(c)
              \/ \E c \in Unserved : calls[c].change = "move"
              \/ Exists => row.path = nodes'[i].place \/ strayed
<1>1. i \in DOMAIN nodes /\ nodes'[i].attr = nodes[i].attr /\ nodes'[i].place = nodes[i].place
    BY DEF TreeKept, LeavesKept, PlacesKept
<1>2. nodes[i].place # nodes[i].attr.path
    BY <1>1
<1> QED
    BY <1>1, <1>2 DEF PlaceInv

\* The tree is kept, and a call goes a step further.
LEMMA AsidePlaces ==
    ASSUME TypeOK, CallsInv, PlaceInv, Aside,
           ~lost', ~crossed',
           NEW i \in DOMAIN nodes', nodes'[i].place # nodes'[i].attr.path
    PROVE  /\ \A c \in Unserved' :
                calls'[c].change = "move" => calls'[c].set.path = nodes'[i].place
           /\ \/ \E c \in Slots : Awaited(c)'
              \/ \E c \in Unserved' : calls'[c].change = "move"
              \/ Exists' => row'.path = nodes'[i].place \/ strayed'
<1> DEFINE place == nodes'[i].place
           Right == \A c \in Unserved : calls[c].change = "move" => calls[c].set.path = place
           Somehow == \/ \E c \in Slots : Awaited(c)
                      \/ \E c \in Unserved : calls[c].change = "move"
                      \/ Exists => row.path = place \/ strayed
           Goal == /\ \A c \in Unserved' :
                        calls'[c].change = "move" => calls'[c].set.path = place
                   /\ \/ \E c \in Slots : Awaited(c)'
                      \/ \E c \in Unserved' : calls'[c].change = "move"
                      \/ Exists' => row'.path = place \/ strayed'
<1>1. ~lost /\ ~crossed => Right /\ Somehow
    BY AsideKeepsTree, PlaceKept
<1> strayed => strayed'
    BY StrayedStays
<1>6. nodes # <<>>
    BY AsideKeepsTree, EmptySeq, LenProperties DEF TreeKept, LeavesKept
<1> HIDE DEF place
<1>2. CASE Quiet
    <2>1. Right /\ Somehow
        BY <1>1, <1>2 DEF Quiet, HearingKept
    <2>2. Unserved' = Unserved /\ \A c \in Slots : Awaited(c)' <=> Awaited(c)
        BY <1>2 DEF Quiet, CallsKept, Unserved, Awaited
    <2>3. \A c \in Unserved : calls'[c].change = calls[c].change /\ calls'[c].set = calls[c].set
        BY <1>2 DEF Quiet, CallsKept, Unserved
    <2>4. Exists' = Exists /\ row' = row
        BY <1>2 DEF Quiet, Exists
    <2>5. Goal
        BY <2>1, <2>2, <2>3, <2>4
    <2> QED
        BY <2>5 DEF place
<1>3. ASSUME NEW s \in Slots, Sends(s), calls'[s].change # "move" PROVE Goal
    <2>1. Right /\ Somehow
        BY <1>1, <1>3 DEF Sends, HearingKept
    <2>2. /\ \A c \in Unserved' : c = s \/ c \in Unserved
          /\ \A c \in Unserved : c \in Unserved'
          /\ \A c \in Slots : Awaited(c) => Awaited(c)'
        BY <1>3 DEF Sends, CallsKept, Unserved, Awaited
    <2>3. \A c \in Unserved : calls'[c].change = calls[c].change /\ calls'[c].set = calls[c].set
        BY <1>3 DEF Sends, CallsKept, Unserved
    <2>4. Exists' = Exists /\ row' = row
        BY <1>3 DEF Sends, Exists
    <2> QED
        BY <1>3, <2>1, <2>2, <2>3, <2>4
<1>4. ASSUME NEW f \in Slots, Drops(f) PROVE Goal
    <2>1. Right /\ Somehow /\ ~Awaited(f) /\ f \notin Unserved
        BY <1>1, <1>4 DEF Drops, Finishes, HearingKept
    <2>2. Unserved' = Unserved /\ \A c \in Slots : Awaited(c) => Awaited(c)'
        BY <1>4, <2>1 DEF Drops, Finishes, CallsKept, Unserved, Awaited
    <2>3. \A c \in Unserved : calls'[c].change = calls[c].change /\ calls'[c].set = calls[c].set
        BY <1>4, <2>1 DEF Drops, Finishes, CallsKept, Unserved
    <2>4. Exists' = Exists /\ row' = row
        BY <1>4 DEF Drops, Finishes, Exists
    <2> QED
        BY <2>1, <2>2, <2>3, <2>4
<1>5. ASSUME NEW f \in Slots, Serve(f) PROVE Goal
    <2>1. Serves(f) /\ ~lost /\ ~crossed
        BY <1>5, ServeServes DEF Serves
    <2>2. Right /\ Somehow
        BY <1>1, <2>1
    <2>3. f \in InFlight /\ f \in Unserved /\ calls[f] \in Calls
        BY <2>1, CallMember DEF Serves, Unserved
    <2>4. /\ \A c \in Unserved' : c \in Unserved
          /\ \A c \in Unserved : /\ calls'[c].change = calls[c].change
                                /\ calls'[c].set.path = calls[c].set.path
          /\ \A c \in Unserved \ {f} : c \in Unserved'
          /\ \A c \in Slots : Awaited(c) => Awaited(c)'
        BY <2>1, <2>3 DEF Serves, CallsKept, Unserved, Awaited
    <2>5. \A c \in Unserved' : calls'[c].change = "move" => calls'[c].set.path = place
        BY <2>2, <2>4
    <2>6. DOMAIN calls = Slots
        BY DEF TypeOK
    <2>7. CASE At(f, "served") /\ calls[f].change # "move"
        <3>1. Awaited(f)'
            BY <2>1, <2>3, <2>6, <2>7 DEF At, Awaited, Serves, Calls
        <3> QED
            BY <2>5, <3>1
    <2>8. CASE row' = row /\ calls[f].change # "move"
        <3>1. Exists' = Exists
            BY <2>8 DEF Exists
        <3> QED
            BY <2>2, <2>4, <2>5, <2>8, <3>1
    <2>9. CASE ReadMove(f)
        <3>1. calls'[f].at = "read"
            BY <2>3, <2>6, <2>9 DEF ReadMove, Calls
        <3>2. f \in Unserved' /\ calls'[f].change = "move"
            BY <2>1, <2>3, <2>9, <3>1 DEF Unserved, Serves, ReadMove
        <3> QED
            BY <2>5, <3>2
    <2>10. CASE WriteMove(f)
        <3>1. calls[f].change = "move"
            BY <2>3, <2>10 DEF WriteMove, CallsInv
        <3>2. calls[f].set.path = place
            BY <2>2, <2>3, <3>1
        <3>3. Exists' => row'.path = place
            BY <2>10, <3>2 DEF WriteMove, Exists
        <3> QED
            BY <2>5, <3>3
    <2>11. CASE RefuseMove(f)
        <3>1. Exists' => strayed'
            BY <1>6, <2>11 DEF RefuseMove, Exists
        <3> QED
            BY <2>5, <3>1
    <2> QED
        BY <1>5, <2>7, <2>8, <2>9, <2>10, <2>11 DEF Serve, ServeChange, ServeSave
<1> QED
    BY <1>2, <1>3, <1>4, <1>5, AsideCalls DEF place

LEMMA PlaceStep ==
    ASSUME TypeOK, TypeOK', LoadInv, CallsInv, PlaceInv, [Next]_vars
    PROVE  PlaceInv'
<1> SUFFICES ASSUME ~lost', ~crossed',
                    NEW i \in DOMAIN nodes', nodes'[i].place # nodes'[i].attr.path
             PROVE  /\ \A c \in Unserved' :
                        calls'[c].change = "move" => calls'[c].set.path = nodes'[i].place
                    /\ \/ \E c \in Slots : Awaited(c)'
                       \/ \E c \in Unserved' : calls'[c].change = "move"
                       \/ Exists' => row'.path = nodes'[i].place \/ strayed'
    BY DEF PlaceInv
<1>1. CASE Aside
    BY <1>1, AsidePlaces
<1>2. CASE NodeDropped
    <2>1. TreeKept
        BY <1>2, Dropped
    <2>2. i \in DOMAIN nodes /\ \A j \in DOMAIN nodes : j = i
        BY <2>1, NodesLen DEF TreeKept, LeavesKept, LoadInv, NoDuplicates
    <2>3. PICK path \in Paths :
            /\ nodes'[i].place = path
            /\ \/ \E s \in Slots : /\ Sends(s) /\ calls'[s].change = "move"
                                 /\ calls'[s].set.path = path
               \/ path = nodes[i].attr.path
        BY <1>2, <2>2, DropCalls
    <2>4. nodes'[i].attr = nodes[i].attr
        BY <2>1, <2>2 DEF TreeKept, LeavesKept
    <2>5. PICK s \in Slots : Sends(s) /\ calls'[s].change = "move" /\ calls'[s].set.path = path
        BY <2>3, <2>4
    <2>6. s \in Unserved'
        BY <2>5 DEF Sends, Unserved
    <2>7. ASSUME NEW c \in Unserved', c # s, calls'[c].change = "move" PROVE FALSE
        <3>1. c \in Unserved /\ calls[c].change = "move"
            BY <2>5, <2>7 DEF Sends, CallsKept, Unserved
        <3>2. Conflict(calls[c], calls'[s])
            BY <2>5, <3>1 DEF Conflict
        <3> QED
            BY <2>5, <3>1, <3>2 DEF Sends
    <2> QED
        BY <2>3, <2>5, <2>6, <2>7
<1>3. CASE Reloads
    <2>1. nodes' = <<>>
        BY <1>3, ReloadsReload DEF Reload
    <2>2. DOMAIN nodes' = {}
        BY <2>1, EmptySeq, LenProperties
    <2> QED
        BY <2>2
<1>4. ASSUME NEW k \in DOMAIN lists,
             ServeList(k) \/ HandleResponse(k) \/ HandleFailure(k) \/ ListFails(k)
      PROVE  FALSE
    <2>1. ServeList(k) \/ HandleResponse(k)
        BY <1>4 DEF HandleFailure, ListFails
    <2>2. nodes = <<>> /\ DOMAIN <<>> = {}
        BY ListsLen DEF LoadInv, LoadingIsAwaited
    <2>3. CASE ServeList(k)
        BY <2>2, <2>3 DEF ServeList
    <2>4. CASE HandleResponse(k)
        <3>1. \/ nodes' = <<>>
              \/ \E s \in lists[k].read : nodes' = Append(<<>>, Leaf(s))
            BY <2>2, <2>4 DEF HandleResponse
        <3>2. PICK s \in lists[k].read : nodes' = Append(<<>>, Leaf(s))
            BY <2>2, <3>1
        <3>3. s \in Sets /\ Leaf(s) \in Nodes
            BY ListMember, NodeTypes DEF ListTypes
        <3>4. <<>> \in Seq(Nodes) /\ Len(<<>>) = 0
            BY EmptySeq
        <3>5. nodes'[1] = Leaf(s) /\ DOMAIN nodes' = 1..1
            BY <3>2, <3>3, <3>4, AppendProperties, LenProperties
        <3>6. nodes'[i] = Leaf(s)
            BY <3>5
        <3> QED
            BY <3>6 DEF Leaf
    <2> QED
        BY <2>1, <2>3, <2>4
<1> QED
    BY <1>1, <1>2, <1>3, <1>4, NextParts

-----------------------------------------------------------------------------
(* The tree shows what the server has                                             *)

LEMMA FreshInit == Init => FreshInv
<1> SUFFICES ASSUME Init PROVE FreshInv
    OBVIOUS
<1>1. InFlight = {} /\ Unserved = {}
    BY DEF Init, InFlight, Unserved
<1>2. DOMAIN nodes = {} /\ DOMAIN lists = {} /\ ~loaded
    BY EmptySeq DEF Init
<1> QED
    BY <1>1, <1>2 DEF FreshInv, CallsInv, MovesInv, ShownInv, Shows, PlaceInv

LEMMA FreshStep ==
    ASSUME TypeOK, TypeOK', LoadInv, FreshInv, [Next]_vars
    PROVE  FreshInv'
BY CallsStep, MovesStep, ShownStep, PlaceStep DEF FreshInv

LEMMA FreshInvariance == Spec => [](TypeOK /\ LoadInv /\ FreshInv)
<1>1. Init => FreshInv
    BY FreshInit
<1>2. TypeOK /\ TypeOK' /\ LoadInv /\ FreshInv /\ [Next]_vars => FreshInv'
    BY FreshStep
<1> QED
    BY <1>1, <1>2, LoadInvariance, PTL DEF Spec

\* At rest the tree shows what the server has, unless an answer was lost, a reload
\* swallowed, or changes crossed, and a leaf is where the server has it, unless a move
\* was refused as well: nothing else makes the tree stale, however many calls are out, in
\* whatever order they are served and answered, and whether or not the server carries out
\* what it answers as done (UserPanel.statusChanged).
THEOREM TreeStaysFresh == Spec => []TreeIsFresh
<1>1. ASSUME TypeOK, LoadInv, FreshInv PROVE TreeIsFresh
    <2> SUFFICES ASSUME AtRest, loaded, ~lost, ~swallowed, ~crossed
                 PROVE  /\ nodes = <<>> <=> ~Exists
                        /\ \A i \in DOMAIN nodes :
                            /\ nodes[i].attr.enabled = row.enabled
                            /\ nodes[i].place # nodes[i].attr.path =>
                                    row.path = nodes[i].place \/ strayed
        BY DEF TreeIsFresh
    <2>1. Unserved = {} /\ \A c \in Slots : ~Awaited(c)
        BY DEF AtRest, Unserved, Awaited
    <2>2. Shows
        BY <1>1, <2>1 DEF FreshInv, ShownInv
    <2>3. \A i \in DOMAIN nodes :
            nodes[i].place # nodes[i].attr.path => (Exists => row.path = nodes[i].place \/ strayed)
        BY <1>1, <2>1 DEF FreshInv, PlaceInv
    <2>4. nodes = <<>> => DOMAIN nodes = {}
        BY EmptySeq
    <2>5. DOMAIN nodes # {} => Exists
        BY <2>2, <2>4 DEF Shows
    <2> QED
        BY <2>2, <2>3, <2>5 DEF Shows
<1> QED
    BY <1>1, FreshInvariance, PTL
=============================================================================
