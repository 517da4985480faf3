--------------------------- MODULE ContentSetConsole ---------------------------
(* The web console: one content set as the tree of the user panel shows it, the   *)
(* form it is edited in, and the calls of one administrator to the server. The    *)
(* browser runs one handler at a time, but answers come when they come: calls are *)
(* served and answered in any order, and some are never answered.                *)
EXTENDS Naturals, Sequences

CONSTANTS
    Top, Folder,   \* the folders of the tree
    None,          \* the content set has not been created
    Gone,          \* the content set has been removed
    Closed,        \* no form is open
    New,           \* the form of a content set that has not been saved yet
    Slots,         \* room for the calls in flight that change something
    Free,          \* a slot without a call
    MaxClicks      \* how often the administrator does something

ASSUME ClicksAssumption == MaxClicks \in Nat

Paths == {Top, Folder}
Sets == [enabled : BOOLEAN, path : Paths]
NewSet == [enabled |-> FALSE, path |-> Top]

\* A leaf of the tree: what it was loaded with, the object its menu works on, and the
\* folder it is in.
Nodes == [attr : Sets, menu : Sets, place : Paths]

\* The form's contentset; shared: it is the object of the node's menu; upToDate: it
\* was what the server had when the form got it.
Forms == [set : Sets, shared : BOOLEAN, upToDate : BOOLEAN]

\* A call: what it writes, where it is, whether it masks the panel, and whether the
\* one who made it is still there to hear the answer.
Changes == {"create", "save", "enable", "disable", "remove", "move"}
Calls == [change : Changes, set : Sets, at : {"sent", "read", "served", "refused"},
          multi : BOOLEAN, heard : BOOLEAN]

ASSUME NamesAssumption ==
    /\ None \notin Sets /\ Gone \notin Sets /\ None # Gone
    /\ Closed \notin Forms /\ New \notin Forms /\ Closed # New
    /\ Free \notin Calls

VARIABLES
    row,             \* the content set on the server
    nodes,           \* the leaves of the tree
    loading, loaded, \* fields of the root node
    waiters,         \* the timers of expand that wait for the end of a load
    lists,           \* the calls that load the tree, with what they will bring
    form,            \* the form
    calls,           \* the calls that change something
    clicks,          \* what the administrator has done so far
    lost,            \* an answer did not come, or nobody was left to hear it
    swallowed,       \* a reload was asked for while a load was in flight
    crossed,         \* two changes that undo each other were out at once
    strayed,         \* a move was refused since the tree was last emptied
    misled           \* what the form was told was not done, since it was last opened

refusalVars == <<strayed, misled>>
hazardVars == <<lost, swallowed, crossed, strayed, misled>>
treeVars == <<nodes, loading, loaded, waiters, lists>>
vars == <<row, nodes, loading, loaded, waiters, lists, form, calls, clicks, lost,
          swallowed, crossed, strayed, misled>>

TypeOK ==
    /\ row \in Sets \cup {None, Gone}
    /\ nodes \in Seq(Nodes)
    /\ loading \in BOOLEAN /\ loaded \in BOOLEAN
    /\ waiters \in Nat
    /\ lists \in Seq([at : {"sent", "served", "failed", "vanished"}, read : SUBSET Sets])
    /\ form \in Forms \cup {Closed, New}
    /\ calls \in [Slots -> Calls \cup {Free}]
    /\ clicks \in 0..MaxClicks
    /\ lost \in BOOLEAN /\ swallowed \in BOOLEAN /\ crossed \in BOOLEAN
    /\ strayed \in BOOLEAN /\ misled \in BOOLEAN

Init ==
    /\ row \in Sets \cup {None}
    /\ nodes = <<>>
    /\ loading = FALSE /\ loaded = FALSE
    /\ waiters = 0
    /\ lists = <<>>
    /\ form = Closed
    /\ calls = [c \in Slots |-> Free]
    /\ clicks = 0
    /\ lost = FALSE /\ swallowed = FALSE /\ crossed = FALSE
    /\ strayed = FALSE /\ misled = FALSE

Exists == row \in Sets
InFlight == {c \in Slots : calls[c] # Free}
Unserved == {c \in InFlight : calls[c].at \in {"sent", "read"}}
Masked == \E c \in InFlight : calls[c].multi
Saving == \E c \in InFlight : calls[c].change \in {"create", "save"} /\ calls[c].heard

\* A move writes the whole content set as it read it; the others write the enabled
\* they carry.
Conflict(a, b) ==
    /\ {a.change, b.change} \cap {"create", "remove"} = {}
    /\ a.change = "move" \/ b.change = "move" \/ a.set.enabled # b.set.enabled

Call(change, set, multi) ==
    [change |-> change, set |-> set, at |-> "sent", multi |-> multi, heard |-> TRUE]

\* A call takes the first slot that is free.
Send(call, before) ==
    \E c \in Slots :
        /\ calls[c] = Free /\ \A d \in Slots : d < c => calls[d] # Free
        /\ calls' = [before EXCEPT ![c] = call]
        /\ crossed' = (crossed \/ \E d \in Unserved : Conflict(calls[d], call))

Click ==
    /\ clicks < MaxClicks
    /\ ~Masked
    /\ clicks' = clicks + 1

-----------------------------------------------------------------------------
(* The root of the tree, an AsyncTreeNode with its DWRTreeLoader               *)

Sent == [at |-> "sent", read |-> {}]

\* Mutant: expand does not mind a load in flight.
ExpandAnyway ==
    /\ loading' = TRUE
    /\ lists' = Append(lists, Sent)
    /\ UNCHANGED waiters

\* expand loads a node that has not been loaded, and waits if a load is in flight.
Expand ==
    IF loading
    THEN /\ waiters' = waiters + 1
         /\ UNCHANGED <<loading, lists>>
    ELSE /\ loading' = TRUE
         /\ lists' = Append(lists, Sent)
         /\ UNCHANGED waiters

\* reload empties the node before it expands it; the menus go with the leaves.
Reload ==
    /\ nodes' = <<>>
    /\ loaded' = FALSE
    /\ swallowed' = (swallowed \/ loading)
    /\ strayed' = FALSE
    /\ Expand

Unshared(f) == IF f \in Forms THEN [f EXCEPT !.shared = FALSE] ELSE f

\* loadComplete: what was asked for meanwhile counts as loaded.
LoadComplete(i) ==
    /\ loading' = FALSE
    /\ loaded' = TRUE
    /\ lists' = SubSeq(lists, 1, i - 1) \o SubSeq(lists, i + 1, Len(lists))

Leaf(s) == [attr |-> s, menu |-> s, place |-> s.path]

\* processResponse appends a leaf for what the server listed; the menus are made and
\* the folders set up when they are rendered.
HandleResponse(i) ==
    /\ lists[i].at = "served"
    /\ \/ lists[i].read = {} /\ UNCHANGED nodes
       \/ \E s \in lists[i].read : nodes' = Append(nodes, Leaf(s))
    /\ LoadComplete(i)
    /\ UNCHANGED <<row, waiters, form, calls, clicks, hazardVars>>

\* Mutant: a load that failed is not completed.
HandleFailureSilently(i) ==
    /\ lists[i].at = "failed"
    /\ lists' = SubSeq(lists, 1, i - 1) \o SubSeq(lists, i + 1, Len(lists))
    /\ lost' = TRUE
    /\ UNCHANGED <<row, nodes, loading, loaded, waiters, form, calls, clicks,
                   swallowed, crossed, refusalVars>>

\* An exception of the server reaches handleFailure, which completes the load.
HandleFailure(i) ==
    /\ lists[i].at = "failed"
    /\ LoadComplete(i)
    /\ lost' = TRUE
    /\ UNCHANGED <<row, nodes, waiters, form, calls, clicks, swallowed, crossed,
                   refusalVars>>

\* Mutant: the timer fires once more than it should.
WaiterWakesAgain ==
    /\ ~loading /\ loaded
    /\ waiters' = waiters - 1
    /\ UNCHANGED <<row, nodes, loading, loaded, lists, form, calls, clicks,
                   hazardVars>>

\* Mutant: the timer is never cleared.
WaiterSleeps ==
    /\ waiters > 0
    /\ ~loading
    /\ UNCHANGED vars

\* The timer of an expand that waited finds the node loaded.
WaiterWakes ==
    /\ waiters > 0
    /\ ~loading
    /\ waiters' = waiters - 1
    /\ UNCHANGED <<row, nodes, loading, loaded, lists, form, calls, clicks,
                   hazardVars>>

RefreshTrees ==
    /\ Click
    /\ Reload
    /\ form' = Unshared(form)
    /\ UNCHANGED <<row, calls, lost, crossed, misled>>

-----------------------------------------------------------------------------
(* Events that the user panel relays to the form                                *)

\* Mutant: the form does not hear of it.
UpdateStatusOfMenu(enabled) ==
    /\ nodes' = [i \in DOMAIN nodes |-> [nodes[i] EXCEPT !.menu.enabled = enabled]]
    /\ UNCHANGED form

\* statuschanged; an object that is shared is the menu's as well.
UpdateStatus(enabled) ==
    /\ form' = IF form \in Forms THEN [form EXCEPT !.set.enabled = enabled] ELSE form
    /\ nodes' = IF form \in Forms /\ form.shared
                THEN [i \in DOMAIN nodes |-> [nodes[i] EXCEPT !.menu.enabled = enabled]]
                ELSE nodes

\* pathupdated, when the leaves have been moved
UpdatePath(path, leaves) ==
    /\ form' = IF form \in Forms THEN [form EXCEPT !.set.path = path] ELSE form
    /\ nodes' = IF form \in Forms /\ form.shared
                THEN [i \in DOMAIN leaves |-> [leaves[i] EXCEPT !.menu.path = path]]
                ELSE leaves

\* nodedeleted, or the tab is closed: nobody is left to hear of a save.
Deaf == [c \in Slots |-> IF c \in InFlight /\ calls[c].change \in {"create", "save"}
                         THEN [calls[c] EXCEPT !.heard = FALSE] ELSE calls[c]]
Remove ==
    /\ form' = IF form \in Forms THEN Closed ELSE form
    /\ lost' = (lost \/ (form \in Forms /\ Saving))

-----------------------------------------------------------------------------
(* The administrator                                                            *)

\* The menu of a leaf: the form hears of the change at once.
ChangeStatus ==
    /\ Click
    /\ \E i \in DOMAIN nodes :
        LET set == [nodes[i].menu EXCEPT !.enabled = ~nodes[i].menu.enabled] IN
        /\ Send(Call(IF set.enabled THEN "enable" ELSE "disable", set, FALSE), calls)
        /\ UpdateStatus(set.enabled)
    /\ UNCHANGED <<row, loading, loaded, waiters, lists, lost, swallowed,
                   refusalVars>>

\* The form of a content set that is deleted is closed at once.
ConfirmDeleteContentSet ==
    /\ Click
    /\ nodes # <<>>
    /\ Send(Call("remove", NewSet, FALSE), IF form \in Forms THEN Deaf ELSE calls)
    /\ Remove
    /\ UNCHANGED <<row, treeVars, swallowed, refusalVars>>

\* The toolbar works on the leaves that are selected, and on those only that are shown
\* in the other state; the panel is masked until the call is over.
DoMultiAction ==
    /\ Click
    /\ \E i \in DOMAIN nodes, change \in {"enable", "disable", "remove"} :
        LET attr == nodes[i].attr IN
        /\ change = "enable" => ~attr.enabled
        /\ change = "disable" => attr.enabled
        /\ Send(Call(change, [attr EXCEPT !.enabled = (change = "enable")], TRUE), calls)
    /\ UNCHANGED <<row, treeVars, form, lost, swallowed, refusalVars>>

\* A leaf is dropped on another folder. Nothing is sent if it comes back to the folder
\* it was loaded in; its attributes stay as they are.
NodeDropped ==
    /\ Click
    /\ \E i \in DOMAIN nodes, path \in Paths :
        LET leaves == [nodes EXCEPT ![i].place = path] IN
        /\ path # nodes[i].place
        /\ IF path # nodes[i].attr.path
           THEN /\ Send(Call("move", [nodes[i].attr EXCEPT !.path = path], FALSE), calls)
                /\ UpdatePath(path, leaves)
           ELSE nodes' = leaves /\ UNCHANGED <<form, calls, crossed>>
    /\ UNCHANGED <<row, loading, loaded, waiters, lists, lost, swallowed,
                   refusalVars>>

\* The form gets the object of the menu. Bound: one form. showTab finds the tab of a
\* content set by its title, which editing changes, so that the code can open a second.
EditContentSet ==
    /\ Click
    /\ form = Closed
    /\ \E i \in DOMAIN nodes :
        form' = [set |-> nodes[i].menu, shared |-> TRUE,
                 upToDate |-> nodes[i].menu = row /\ Unserved = {}]
    /\ misled' = FALSE
    /\ UNCHANGED <<row, treeVars, calls, lost, swallowed, crossed, strayed>>

AddContentSetForm ==
    /\ Click
    /\ form = Closed /\ row = None
    /\ form' = New
    /\ UNCHANGED <<row, treeVars, calls, hazardVars>>

\* prepareContentSet puts the enabled and the folder of the form's object into what is
\* sent; the form is masked until the call is over.
Submit ==
    /\ Click
    /\ form # Closed /\ ~Saving
    /\ Send(IF form = New THEN Call("create", NewSet, FALSE)
            ELSE Call("save", form.set, FALSE), calls)
    /\ UNCHANGED <<row, treeVars, form, lost, swallowed, refusalVars>>

CloseForm ==
    /\ Click
    /\ form # Closed
    /\ form' = Closed
    /\ calls' = Deaf
    /\ lost' = (lost \/ Saving)
    /\ UNCHANGED <<row, treeVars, swallowed, crossed, refusalVars>>

-----------------------------------------------------------------------------
(* The server                                                                   *)

ServeList(i) ==
    /\ lists[i].at = "sent"
    /\ \E answer \in {[at |-> "served", read |-> IF Exists THEN {row} ELSE {}],
                     [at |-> "failed", read |-> {}]} :
        lists' = [lists EXCEPT ![i] = answer]
    /\ UNCHANGED <<row, nodes, loading, loaded, waiters, form, calls, clicks,
                   hazardVars>>

At(c, at) == calls' = [calls EXCEPT ![c].at = at]

Change(c) ==
    /\ row' = IF ~Exists THEN row
              ELSE IF calls[c].change = "remove" THEN Gone
              ELSE [row EXCEPT !.enabled = calls[c].set.enabled]
    /\ UNCHANGED misled

\* The REST server refuses the change, or is not there.
Neglect(c) ==
    /\ row' = row
    /\ misled' = (misled \/ (Exists /\ form # Closed /\ calls[c].change # "remove"))

\* Whatever became of the change, it is answered as done: the status of the response is
\* not looked at.
ServeChange(c) ==
    /\ c \in InFlight /\ calls[c].at = "sent"
    /\ calls[c].change \in {"enable", "disable", "remove"}
    /\ Change(c) \/ Neglect(c)
    /\ At(c, "served")
    /\ UNCHANGED <<treeVars, form, clicks, lost, swallowed, crossed, strayed>>

\* A save of a content set that is gone is refused, and so is a name that is taken.
ServeSave(c) ==
    /\ c \in InFlight /\ calls[c].at = "sent"
    /\ \/ /\ \/ calls[c].change = "create" /\ row = None
             \/ calls[c].change = "save" /\ Exists
          /\ row' = calls[c].set
          /\ At(c, "served")
       \/ /\ calls[c].change \in {"create", "save"}
          /\ row' = row
          /\ At(c, "refused")
    /\ UNCHANGED <<treeVars, form, clicks, hazardVars>>

\* updateDisplayPath reads the content set in one request and saves all of it in another.
ReadMove(c) ==
    /\ c \in InFlight /\ calls[c].at = "sent" /\ calls[c].change = "move"
    /\ Exists
    /\ calls' = [calls EXCEPT ![c].at = "read", ![c].set.enabled = row.enabled]
    /\ UNCHANGED <<row, treeVars, form, clicks, hazardVars>>

WriteMove(c) ==
    /\ c \in InFlight /\ calls[c].at = "read"
    /\ Exists
    /\ row' = calls[c].set
    /\ At(c, "served")
    /\ UNCHANGED <<treeVars, form, clicks, hazardVars>>

\* Either request may be refused: the content set is gone, or does not validate, or the
\* database fails. The leaf and the form have been told of the move.
RefuseMove(c) ==
    /\ c \in Unserved /\ calls[c].change = "move"
    /\ At(c, "refused")
    /\ strayed' = (strayed \/ (Exists /\ nodes # <<>>))
    /\ misled' = (misled \/ (Exists /\ form # Closed))
    /\ UNCHANGED <<row, treeVars, form, clicks, lost, swallowed, crossed>>

-----------------------------------------------------------------------------
(* The answers                                                                  *)

Done(c) == calls' = [calls EXCEPT ![c] = Free]
Answered(c, changes) == c \in InFlight /\ calls[c].at = "served" /\ calls[c].change \in changes

\* Mutant: the tree is left as it is.
StatusChangedOnly(c) ==
    /\ Answered(c, {"enable", "disable", "remove"}) /\ ~calls[c].multi
    /\ Done(c)
    /\ UNCHANGED <<row, treeVars, form, clicks, hazardVars>>

\* The callback of a menu's call reloads the tree.
StatusChanged(c) ==
    /\ Answered(c, {"enable", "disable", "remove"}) /\ ~calls[c].multi
    /\ Reload
    /\ form' = Unshared(form)
    /\ Done(c)
    /\ UNCHANGED <<row, clicks, lost, crossed, misled>>

\* The callback of the toolbar's call: the mask goes, the tree is reloaded, and then the
\* form hears of the change.
MultiSuccess(c) ==
    /\ Answered(c, {"enable", "disable", "remove"}) /\ calls[c].multi
    /\ Reload
    /\ IF calls[c].change = "remove"
       THEN /\ form' = IF form \in Forms THEN Closed ELSE form
            /\ lost' = (lost \/ (form \in Forms /\ Saving))
            /\ calls' = [(IF form \in Forms THEN Deaf ELSE calls) EXCEPT ![c] = Free]
       ELSE /\ form' = IF form \in Forms
                       THEN [form EXCEPT !.set.enabled = calls[c].set.enabled, !.shared = FALSE]
                       ELSE form
            /\ Done(c)
            /\ UNCHANGED lost
    /\ UNCHANGED <<row, clicks, crossed, misled>>

\* onSuccess: the tree is reloaded, and the form of a new content set becomes the form
\* of the one that has been created.
OnSuccess(c) ==
    /\ Answered(c, {"create", "save"})
    /\ Done(c)
    /\ IF calls[c].heard
       THEN /\ Reload
            /\ form' = IF calls[c].change = "create"
                       THEN [set |-> NewSet, shared |-> FALSE,
                             upToDate |-> row = NewSet /\ Unserved = {}]
                       ELSE Unshared(form)
       ELSE UNCHANGED <<treeVars, form, swallowed, strayed>>
    /\ UNCHANGED <<row, clicks, lost, crossed, misled>>

\* No callback waits for a move; an error is shown, and the masks go.
OtherAnswer(c) ==
    /\ c \in InFlight
    /\ calls[c].at = "refused" \/ Answered(c, {"move"})
    /\ Done(c)
    /\ UNCHANGED <<row, treeVars, form, clicks, hazardVars>>

\* Mutant: no postHook takes the mask away.
CallFailsMasked(c) ==
    /\ c \in InFlight
    /\ calls[c].at # "vanished"
    /\ At(c, "vanished")
    /\ lost' = TRUE
    /\ UNCHANGED <<row, treeVars, form, clicks, swallowed, crossed, refusalVars>>

\* The connection fails before or after a call is served: an error is shown, the masks
\* go, and no callback is made.
CallFails(c) ==
    /\ c \in InFlight
    /\ Done(c)
    /\ lost' = TRUE
    /\ UNCHANGED <<row, treeVars, form, clicks, swallowed, crossed, refusalVars>>

\* For the load of the tree nothing is left that would end it.
ListFails(i) ==
    /\ lists[i].at # "vanished"
    /\ lists' = [lists EXCEPT ![i].at = "vanished"]
    /\ lost' = TRUE
    /\ UNCHANGED <<row, nodes, loading, loaded, waiters, form, calls, clicks,
                   swallowed, crossed, refusalVars>>

-----------------------------------------------------------------------------
Clicks ==
    \/ ChangeStatus \/ ConfirmDeleteContentSet \/ DoMultiAction \/ NodeDropped
    \/ EditContentSet \/ AddContentSetForm \/ Submit \/ CloseForm \/ RefreshTrees
Serve(c) ==
    ServeChange(c) \/ ServeSave(c) \/ ReadMove(c) \/ WriteMove(c) \/ RefuseMove(c)
Answer(c) == StatusChanged(c) \/ MultiSuccess(c) \/ OnSuccess(c) \/ OtherAnswer(c)
TreeStep ==
    \/ \E i \in DOMAIN lists : ServeList(i) \/ HandleResponse(i) \/ HandleFailure(i)
    \/ WaiterWakes

Next ==
    \/ Clicks
    \/ TreeStep
    \/ \E i \in DOMAIN lists : ListFails(i)
    \/ \E c \in Slots : Serve(c) \/ Answer(c) \/ CallFails(c)

\* The server serves and the browser hears of it, or of the failure; the administrator
\* may stop at any time.
Fairness ==
    /\ WF_vars(TreeStep)
    /\ \A c \in Slots : WF_vars(Serve(c) \/ Answer(c))

Spec == Init /\ [][Next]_vars /\ Fairness
=============================================================================
