---------------------- MODULE ContentSetConsoleFormProofs ----------------------
(* The form of the console is what the server has, or will have once the calls in  *)
(* flight are served, for any number of them and of actions of the administrator.  *)
EXTENDS ContentSetConsoleProofs

Switching == {"enable", "disable"}

\* The call of the toolbar, which masks the panel.
Batch == {c \in InFlight : calls[c].multi}

\* Nothing of a content set is shown before it has been created.
PastInv ==
    /\ nodes # <<>> => row # None
    /\ \A i \in DOMAIN lists : lists[i].read # {} => row # None

\* There is a form, and all that it was told is done, or will be.
Told == ~lost /\ ~misled /\ form # Closed

\* There is one call of the toolbar at a time, and whatever was out when it was sent agrees
\* with it.
BatchInv ==
    /\ \A c, d \in Batch : c = d
    /\ \A c \in Batch : /\ calls[c].change \in Switching \cup {"remove"}
                        /\ calls[c].at \in {"sent", "served"}
                        /\ row # None
    /\ ~crossed => \A b \in Batch : calls[b].change \in Switching =>
        /\ \A c \in Unserved :
            /\ calls[c].change # "move"
            /\ calls[c].change \in Switching \cup {"save"} =>
                calls[c].set.enabled = calls[b].set.enabled
        /\ Told /\ calls[b].at = "served" /\ Exists => row.enabled = calls[b].set.enabled

\* A form is saved by one call at a time, and stays open meanwhile.
SavesInv ==
    ~lost => /\ \A c \in InFlight : calls[c].change = "create" => form = New
             /\ \A c \in InFlight : calls[c].change = "save" => form \in Forms
             /\ \A c, d \in InFlight :
                    calls[c].change \in {"create", "save"} /\ calls[d].change \in {"create", "save"}
                        => c = d

\* The enabled that the form has, or will have when the toolbar's call is answered.
Asked(enabled) ==
    \/ \E b \in Batch : calls[b].change \in Switching /\ enabled = calls[b].set.enabled
    \/ /\ \A b \in Batch : calls[b].change \notin Switching
       /\ enabled = form.set.enabled

\* The server has what the form has, or a call is about to bring it there.
Agreed ==
    /\ Exists
    /\ \A c \in Unserved : calls[c].change = "remove" => calls[c].multi
    /\ \A c \in Unserved :
        calls[c].change \in {"save", "move"} => calls[c].set.path = form.set.path
    /\ row.path = form.set.path \/ \E c \in Unserved : calls[c].change = "move"
    /\ \A enabled \in BOOLEAN : Asked(enabled) =>
        /\ \A c \in Unserved :
            calls[c].change \in Switching \cup {"save"} => calls[c].set.enabled = enabled
        /\ row.enabled = enabled \/ \E c \in Unserved : calls[c].change \in Switching

\* A form whose content set the toolbar has removed is about to be closed.
Closing == \E b \in Batch : calls[b].change = "remove" /\ calls[b].at = "served"

FormInv ==
    ~lost /\ ~crossed /\ ~misled /\ form \in Forms /\ form.upToDate => Closing \/ Agreed

-----------------------------------------------------------------------------
(* What a step does to the form                                                   *)

SameKind == (form' \in Forms <=> form \in Forms) /\ (form' = New <=> form = New)
FormKept ==
    /\ SameKind
    /\ form \in Forms => form'.set = form.set /\ form'.upToDate = form.upToDate
EnabledSet(enabled) ==
    /\ SameKind
    /\ form \in Forms => /\ form'.set = [form.set EXCEPT !.enabled = enabled]
                         /\ form'.upToDate = form.upToDate
PathSet(path) ==
    /\ SameKind
    /\ form \in Forms => /\ form'.set = [form.set EXCEPT !.path = path]
                         /\ form'.upToDate = form.upToDate
FormClosed ==
    /\ form' \notin Forms
    /\ form' = form \/ (form' = Closed /\ (lost' \/ ~Saving))

Opened ==
    /\ form = Closed /\ ~Masked
    /\ form' \in Forms /\ form'.upToDate =>
        form'.set = row /\ form'.set \in Sets /\ Unserved = {}

\* What the administrator sends.
Switches(s) ==
    \E enabled \in BOOLEAN :
        /\ calls'[s].change \in Switching /\ calls'[s].set.enabled = enabled
        /\ ~calls'[s].multi
        /\ EnabledSet(enabled)
Deletes(s) == calls'[s].change = "remove" /\ ~calls'[s].multi /\ FormClosed
Batches(s) ==
    /\ calls'[s].change \in Switching \cup {"remove"} /\ calls'[s].multi
    /\ nodes # <<>>
    /\ FormKept
Submits(s) ==
    /\ ~Saving /\ FormKept /\ ~calls'[s].multi
    /\ \/ form = New /\ calls'[s].change = "create"
       \/ form \in Forms /\ calls'[s].change = "save" /\ calls'[s].set = form.set
Moves(s) ==
    /\ calls'[s].change = "move" /\ ~calls'[s].multi
    /\ PathSet(calls'[s].set.path)
Asks(s) == ~Masked /\ (Switches(s) \/ Deletes(s) \/ Batches(s) \/ Submits(s) \/ Moves(s))

\* What the answers do.
EndsQuietly(c) ==
    /\ calls[c].at \in {"served", "refused"}
    /\ calls[c].multi => calls[c].at = "refused" \/ calls[c].change = "move"
    /\ FormKept
EndsSave(c) == /\ calls[c].at = "served" /\ calls[c].change = "save" /\ FormKept
EndsCreate(c) ==
    /\ calls[c].at = "served" /\ calls[c].change = "create"
    /\ form' \in Forms /\ form'.set = NewSet
    /\ form'.upToDate => row = NewSet /\ Unserved = {}
EndsBatch(c) ==
    /\ calls[c].at = "served" /\ calls[c].multi
    /\ \/ calls[c].change = "remove" /\ FormClosed
       \/ calls[c].change \in Switching /\ EnabledSet(calls[c].set.enabled)
Ends(c) == EndsQuietly(c) \/ EndsSave(c) \/ EndsCreate(c) \/ EndsBatch(c)

LEMMA SameForm == form' = form => FormKept
BY DEF FormKept, SameKind

LEMMA UnsharedForm == form' = Unshared(form) => FormKept
<1> SUFFICES ASSUME form' = Unshared(form) PROVE FormKept
    OBVIOUS
<1>1. CASE form \in Forms
    <2>1. form' = [form EXCEPT !.shared = FALSE]
        BY <1>1 DEF Unshared
    <2>2. form' \in Forms /\ form'.set = form.set /\ form'.upToDate = form.upToDate
        BY <1>1, <2>1 DEF Forms
    <2> QED
        BY <1>1, <2>2, NamesAssumption DEF FormKept, SameKind
<1>2. CASE form \notin Forms
    BY <1>2, SameForm DEF Unshared
<1> QED
    BY <1>1, <1>2

LEMMA StatusForm ==
    ASSUME NEW enabled \in BOOLEAN, UpdateStatus(enabled)
    PROVE  EnabledSet(enabled)
<1>1. CASE form \in Forms
    <2>1. form' = [form EXCEPT !.set.enabled = enabled]
        BY <1>1 DEF UpdateStatus
    <2>2. /\ form' \in Forms /\ form'.set = [form.set EXCEPT !.enabled = enabled]
          /\ form'.upToDate = form.upToDate
        BY <1>1, <2>1 DEF Forms, Sets
    <2> QED
        BY <1>1, <2>2, NamesAssumption DEF EnabledSet, SameKind
<1>2. CASE form \notin Forms
    BY <1>2 DEF UpdateStatus, EnabledSet, SameKind
<1> QED
    BY <1>1, <1>2

LEMMA PathForm ==
    ASSUME NEW path \in Paths, NEW leaves, UpdatePath(path, leaves)
    PROVE  PathSet(path)
<1>1. CASE form \in Forms
    <2>1. form' = [form EXCEPT !.set.path = path]
        BY <1>1 DEF UpdatePath
    <2>2. /\ form' \in Forms /\ form'.set = [form.set EXCEPT !.path = path]
          /\ form'.upToDate = form.upToDate
        BY <1>1, <2>1 DEF Forms, Sets
    <2> QED
        BY <1>1, <2>2, NamesAssumption DEF PathSet, SameKind
<1>2. CASE form \notin Forms
    BY <1>2 DEF UpdatePath, PathSet, SameKind
<1> QED
    BY <1>1, <1>2

LEMMA RemoveForm == Remove => FormClosed /\ lost' = (lost \/ (form \in Forms /\ Saving))
BY NamesAssumption DEF Remove, FormClosed

\* What the administrator does is one of these.
LEMMA ChangeStatusAsks ==
    ASSUME TypeOK, ChangeStatus
    PROVE  \E s \in Slots : Sends(s) /\ Asks(s)
<1>1. PICK i \in DOMAIN nodes :
        LET set == [nodes[i].menu EXCEPT !.enabled = ~nodes[i].menu.enabled] IN
        /\ Send(Call(IF set.enabled THEN "enable" ELSE "disable", set, FALSE), calls)
        /\ UpdateStatus(set.enabled)
    BY DEF ChangeStatus
<1> DEFINE set == [nodes[i].menu EXCEPT !.enabled = ~nodes[i].menu.enabled]
           change == IF set.enabled THEN "enable" ELSE "disable"
           call == Call(change, set, FALSE)
<1>2. set \in Sets /\ set.enabled \in BOOLEAN
    BY NodeMember, NodeTypes DEF Sets
<1>3. change \in Switching
    BY DEF Switching
<1>4. Send(call, calls) /\ UpdateStatus(set.enabled)
    BY <1>1
<1> HIDE DEF set, change
<1>5. call \in Calls
    BY <1>2, <1>3, CallTypes DEF Changes, Switching
<1>6. /\ call.at = "sent" /\ call.heard /\ call.change = change /\ call.set = set
      /\ call.multi = FALSE
    BY DEF Call
<1>7. ~Masked /\ row' = row /\ lost' = lost
    BY DEF ChangeStatus, Click
<1> HIDE DEF call
<1>8. PICK s \in Slots : Sends(s) /\ calls'[s] = call
    BY <1>4, <1>5, <1>6, <1>7, SendSends
<1>9. EnabledSet(set.enabled)
    BY <1>2, <1>4, StatusForm
<1>10. Switches(s)
    BY <1>2, <1>3, <1>6, <1>8, <1>9 DEF Switches
<1> QED
    BY <1>7, <1>8, <1>10 DEF Asks

LEMMA DeleteAsks ==
    ASSUME TypeOK, ConfirmDeleteContentSet
    PROVE  \E s \in Slots : Sends(s) /\ Asks(s)
<1> DEFINE call == Call("remove", NewSet, FALSE)
           before == IF form \in Forms THEN Deaf ELSE calls
<1>1. call \in Calls
    BY SetTypes, CallTypes DEF Changes
<1>2. Send(call, before) /\ row' = row /\ ~Masked /\ Remove
    BY DEF ConfirmDeleteContentSet, Click
<1>3. /\ call.at = "sent" /\ call.heard /\ call.change = "remove" /\ call.multi = FALSE
    BY DEF Call
<1>4. \/ before = calls /\ lost' = lost
      \/ before = Deaf /\ lost' = (lost \/ Saving)
    BY <1>2, RemoveForm DEF TypeOK
<1> HIDE DEF call, before
<1>5. PICK s \in Slots : Sends(s) /\ calls'[s] = call
    BY <1>1, <1>2, <1>3, <1>4, SendSends
<1>6. Deletes(s)
    BY <1>2, <1>3, <1>5, RemoveForm DEF Deletes
<1> QED
    BY <1>2, <1>5, <1>6 DEF Asks

LEMMA MultiAsks ==
    ASSUME TypeOK, DoMultiAction
    PROVE  \E s \in Slots : Sends(s) /\ Asks(s)
<1>1. PICK i \in DOMAIN nodes, change \in {"enable", "disable", "remove"} :
        Send(Call(change, [nodes[i].attr EXCEPT !.enabled = (change = "enable")], TRUE), calls)
    BY DEF DoMultiAction
<1> DEFINE set == [nodes[i].attr EXCEPT !.enabled = (change = "enable")]
           call == Call(change, set, TRUE)
<1>2. set \in Sets
    BY NodeMember, NodeTypes, SetTypes
<1>3. /\ Send(call, calls) /\ row' = row /\ lost' = lost /\ ~Masked /\ form' = form
    BY <1>1 DEF DoMultiAction, Click
<1>4. nodes # <<>>
    BY EmptySeq, LenProperties
<1> HIDE DEF set
<1>5. call \in Calls
    BY <1>2, CallTypes DEF Changes
<1>6. call.at = "sent" /\ call.heard /\ call.change = change /\ call.multi = TRUE
    BY DEF Call
<1> HIDE DEF call
<1>7. PICK s \in Slots : Sends(s) /\ calls'[s] = call
    BY <1>3, <1>5, <1>6, SendSends
<1>8. Batches(s)
    BY <1>3, <1>4, <1>6, <1>7, SameForm DEF Batches, Switching
<1> QED
    BY <1>3, <1>7, <1>8 DEF Asks

LEMMA SubmitAsks ==
    ASSUME TypeOK, Submit
    PROVE  \E s \in Slots : Sends(s) /\ Asks(s)
<1> DEFINE call == IF form = New THEN Call("create", NewSet, FALSE)
                   ELSE Call("save", form.set, FALSE)
<1>1. form = New \/ (form \in Forms /\ form.set \in Sets)
    BY DEF Submit, TypeOK, Forms
<1>2. call \in Calls
    BY <1>1, SetTypes, CallTypes DEF Changes
<1>3. /\ Send(call, calls) /\ row' = row /\ lost' = lost /\ ~Masked /\ ~Saving
      /\ form' = form
    BY DEF Submit, Click
<1>4. /\ call.at = "sent" /\ call.heard /\ call.multi = FALSE
      /\ \/ form = New /\ call.change = "create"
         \/ form \in Forms /\ call.change = "save" /\ call.set = form.set
    BY <1>1, NamesAssumption DEF Call
<1> HIDE DEF call
<1>5. PICK s \in Slots : Sends(s) /\ calls'[s] = call
    BY <1>2, <1>3, <1>4, SendSends
<1>6. Submits(s)
    BY <1>3, <1>4, <1>5, SameForm DEF Submits
<1> QED
    BY <1>3, <1>5, <1>6 DEF Asks

LEMMA DropAsks ==
    ASSUME TypeOK, NodeDropped
    PROVE  (Quiet /\ FormKept) \/ \E s \in Slots : Sends(s) /\ Asks(s)
<1>1. row' = row /\ lost' = lost /\ ~Masked
    BY DEF NodeDropped, Click
<1>2. PICK i \in DOMAIN nodes, path \in Paths :
        LET leaves == [nodes EXCEPT ![i].place = path] IN
        \/ /\ Send(Call("move", [nodes[i].attr EXCEPT !.path = path], FALSE), calls)
           /\ UpdatePath(path, leaves)
        \/ UNCHANGED <<form, calls, crossed>>
    BY DEF NodeDropped
<1> DEFINE set == [nodes[i].attr EXCEPT !.path = path]
           call == Call("move", set, FALSE)
           leaves == [nodes EXCEPT ![i].place = path]
<1>3. set \in Sets /\ set.path = path
    BY NodeMember, NodeTypes, SetTypes DEF Sets
<1>4. CASE Send(call, calls) /\ UpdatePath(path, leaves)
    <2> HIDE DEF set, leaves
    <2>1. call \in Calls
        BY <1>3, CallTypes DEF Changes
    <2>2. /\ call.at = "sent" /\ call.heard /\ call.change = "move" /\ call.set = set
          /\ call.multi = FALSE
        BY DEF Call
    <2>3. PathSet(path)
        BY <1>4, PathForm
    <2> HIDE DEF call
    <2>4. PICK s \in Slots : Sends(s) /\ calls'[s] = call
        BY <1>1, <1>4, <2>1, <2>2, SendSends
    <2>5. Moves(s)
        BY <1>3, <2>2, <2>3, <2>4 DEF Moves
    <2> QED
        BY <1>1, <2>4, <2>5 DEF Asks
<1>5. CASE UNCHANGED <<form, calls, crossed>>
    BY <1>1, <1>5, SameCalls, SameForm
<1> QED
    BY <1>2, <1>4, <1>5

\* What is heard of the calls.
LEMMA AnswerEnds ==
    ASSUME TypeOK, CallsInv, NEW c \in Slots, Answer(c) \/ CallFails(c)
    PROVE  Finishes(c) /\ (lost' \/ Ends(c))
<1>1. c \in InFlight /\ UNCHANGED <<row, crossed>>
    BY DEF Answer, StatusChanged, MultiSuccess, OnSuccess, OtherAnswer, CallFails, Answered,
           hazardVars
<1>2. CASE StatusChanged(c)
    <2>1. /\ calls' = [calls EXCEPT ![c] = Free] /\ lost' = lost
          /\ calls[c].at = "served" /\ ~calls[c].multi /\ form' = Unshared(form)
        BY <1>2 DEF StatusChanged, Answered, Done
    <2> QED
        BY <1>1, <2>1, DoneFinishes, UnsharedForm DEF Ends, EndsQuietly
<1>3. CASE MultiSuccess(c)
    <2>1. calls[c].at = "served" /\ calls[c].multi
          /\ calls[c].change \in Switching \cup {"remove"}
        BY <1>3 DEF MultiSuccess, Answered, Switching
    <2>2. CASE calls[c].change = "remove"
        <3>1. /\ form' = IF form \in Forms THEN Closed ELSE form
              /\ lost' = (lost \/ (form \in Forms /\ Saving))
              /\ calls' = [(IF form \in Forms THEN Deaf ELSE calls) EXCEPT ![c] = Free]
            BY <1>3, <2>2 DEF MultiSuccess
        <3>2. FormClosed
            BY <3>1, NamesAssumption DEF FormClosed
        <3>3. CASE form \in Forms
            BY <1>1, <2>1, <2>2, <3>1, <3>2, <3>3, DoneFinishes DEF Ends, EndsBatch
        <3>4. CASE form \notin Forms
            <4>1. calls' = [calls EXCEPT ![c] = Free] /\ lost' = lost
                BY <3>1, <3>4 DEF TypeOK
            <4> QED
                BY <1>1, <2>1, <2>2, <3>2, <4>1, DoneFinishes DEF Ends, EndsBatch
        <3> QED
            BY <3>3, <3>4
    <2>3. CASE calls[c].change # "remove"
        <3>1. /\ form' = IF form \in Forms
                         THEN [form EXCEPT !.set.enabled = calls[c].set.enabled, !.shared = FALSE]
                         ELSE form
              /\ calls' = [calls EXCEPT ![c] = Free] /\ lost' = lost
            BY <1>3, <2>3 DEF MultiSuccess, Done
        <3>2. calls[c].set.enabled \in BOOLEAN
            BY <1>1, CallMember DEF Calls, Sets
        <3>3. EnabledSet(calls[c].set.enabled)
            <4>1. CASE form \in Forms
                <5>1. /\ form' \in Forms
                      /\ form'.set = [form.set EXCEPT !.enabled = calls[c].set.enabled]
                      /\ form'.upToDate = form.upToDate
                    BY <3>1, <3>2, <4>1 DEF Forms, Sets
                <5> QED
                    BY <4>1, <5>1, NamesAssumption DEF EnabledSet, SameKind
            <4>2. CASE form \notin Forms
                BY <3>1, <4>2 DEF EnabledSet, SameKind
            <4> QED
                BY <4>1, <4>2
        <3> QED
            BY <1>1, <2>1, <2>3, <3>1, <3>3, DoneFinishes DEF Ends, EndsBatch
    <2> QED
        BY <2>2, <2>3
<1>4. CASE OnSuccess(c)
    <2>1. /\ calls' = [calls EXCEPT ![c] = Free] /\ lost' = lost
          /\ calls[c].at = "served" /\ calls[c].change \in {"create", "save"}
        BY <1>4 DEF OnSuccess, Answered, Done
    <2>2. Finishes(c)
        BY <1>1, <2>1, DoneFinishes
    <2>3. CASE ~calls[c].heard
        BY <1>1, <2>1, <2>2, <2>3 DEF CallsInv
    <2>4. CASE calls[c].heard /\ calls[c].change = "create"
        <3>1. form' = [set |-> NewSet, shared |-> FALSE,
                       upToDate |-> row = NewSet /\ Unserved = {}]
            BY <1>4, <2>4 DEF OnSuccess
        <3>2. form' \in Forms
            BY <3>1, SetTypes DEF Forms
        <3> QED
            BY <2>1, <2>2, <2>4, <3>1, <3>2 DEF Ends, EndsCreate
    <2>5. CASE calls[c].heard /\ calls[c].change # "create"
        <3>1. form' = Unshared(form)
            BY <1>4, <2>5 DEF OnSuccess
        <3> QED
            BY <2>1, <2>2, <2>5, <3>1, UnsharedForm DEF Ends, EndsSave
    <2> QED
        BY <2>3, <2>4, <2>5
<1>5. CASE OtherAnswer(c)
    <2>1. /\ calls' = [calls EXCEPT ![c] = Free] /\ lost' = lost /\ form' = form
          /\ \/ calls[c].at = "refused"
             \/ calls[c].at = "served" /\ calls[c].change = "move"
        BY <1>5 DEF OtherAnswer, Answered, Done, hazardVars
    <2> QED
        BY <1>1, <2>1, DoneFinishes, SameForm DEF Ends, EndsQuietly
<1>6. CASE CallFails(c)
    <2>1. calls' = [calls EXCEPT ![c] = Free] /\ lost'
        BY <1>6 DEF CallFails, Done
    <2> QED
        BY <1>1, <2>1, DoneFinishes
<1> QED
    BY <1>2, <1>3, <1>4, <1>5, <1>6 DEF Answer

LEMMA OpenForms ==
    ASSUME TypeOK, EditContentSet \/ AddContentSetForm \/ CloseForm
    PROVE  Quiet /\ (Opened \/ (FormClosed /\ (misled => misled')))
<1>1. CASE EditContentSet
    <2>1. PICK i \in DOMAIN nodes :
            form' = [set |-> nodes[i].menu, shared |-> TRUE,
                     upToDate |-> nodes[i].menu = row /\ Unserved = {}]
        BY <1>1 DEF EditContentSet
    <2>2. nodes[i].menu \in Sets
        BY NodeMember, NodeTypes
    <2>3. form = Closed /\ ~Masked /\ UNCHANGED <<calls, row, crossed, lost>>
        BY <1>1 DEF EditContentSet, Click
    <2> QED
        BY <2>1, <2>2, <2>3, SameCalls DEF Opened
<1>2. CASE AddContentSetForm
    <2>1. form = Closed /\ ~Masked /\ form' = New /\ UNCHANGED <<calls, row, crossed, lost>>
        BY <1>2 DEF AddContentSetForm, Click, hazardVars
    <2> QED
        BY <2>1, SameCalls, NamesAssumption DEF Opened
<1>3. CASE CloseForm
    <2>1. /\ calls' = Deaf /\ lost' = (lost \/ Saving) /\ row' = row /\ crossed' = crossed
          /\ form' = Closed /\ misled' = misled
        BY <1>3 DEF CloseForm, refusalVars
    <2>2. InFlight' = InFlight
        BY <2>1, DeafCalls, NamesAssumption DEF InFlight
    <2>3. CallsKept(InFlight)
        BY <2>1, <2>2, DeafCalls DEF CallsKept
    <2>4. HearingKept(InFlight)
        BY <2>1 DEF HearingKept, Saving
    <2> QED
        BY <2>1, <2>2, <2>3, <2>4, NamesAssumption DEF Quiet, FormClosed
<1> QED
    BY <1>1, <1>2, <1>3

\* Only the form that is opened next has not been told what was not done.
LEMMA MisledStays ==
    ASSUME [Next]_vars, ~EditContentSet, misled
    PROVE  misled'
<1>1. CASE Clicks
    BY <1>1
    DEF Clicks, ChangeStatus, ConfirmDeleteContentSet, DoMultiAction, NodeDropped,
        AddContentSetForm, Submit, CloseForm, RefreshTrees, hazardVars, refusalVars
<1>2. CASE TreeStep \/ (\E i \in DOMAIN lists : ListFails(i)) \/ UNCHANGED vars
    BY <1>2
    DEF TreeStep, ServeList, HandleResponse, HandleFailure, WaiterWakes, ListFails,
        hazardVars, refusalVars, vars
<1>3. ASSUME NEW c \in Slots, Serve(c) PROVE misled'
    BY <1>3
    DEF Serve, ServeChange, Change, Neglect, ServeSave, ReadMove, WriteMove, RefuseMove,
        hazardVars
<1>4. ASSUME NEW c \in Slots, Answer(c) \/ CallFails(c) PROVE misled'
    BY <1>4
    DEF Answer, StatusChanged, MultiSuccess, OnSuccess, OtherAnswer, CallFails, hazardVars,
        refusalVars
<1> QED
    BY <1>1, <1>2, <1>3, <1>4 DEF Next

LEMMA FormKinds ==
    ASSUME TypeOK, CallsInv, [Next]_vars
    PROVE  \/ Quiet /\ Opened
           \/ /\ misled => misled'
              /\ \/ Quiet /\ (FormKept \/ FormClosed)
                 \/ \E s \in Slots : Sends(s) /\ Asks(s)
                 \/ \E c \in Slots : Finishes(c) /\ (lost' \/ Ends(c))
                 \/ \E c \in Slots : Serve(c) /\ form' = form
<1>1. CASE EditContentSet \/ AddContentSetForm \/ CloseForm
    BY <1>1, OpenForms
<1>2. CASE Clicks /\ ~(EditContentSet \/ AddContentSetForm \/ CloseForm)
    <2>1. CASE RefreshTrees
        <3>1. UNCHANGED <<calls, row, crossed, lost>> /\ form' = Unshared(form)
            BY <2>1 DEF RefreshTrees
        <3> QED
            BY <1>2, <3>1, SameCalls, UnsharedForm, MisledStays
    <2> QED
        BY <1>2, <2>1, ChangeStatusAsks, DeleteAsks, MultiAsks, SubmitAsks, DropAsks,
           MisledStays
        DEF Clicks
<1>3. CASE /\ TreeStep \/ (\E i \in DOMAIN lists : ListFails(i)) \/ UNCHANGED vars
           /\ ~EditContentSet
    <2>1. UNCHANGED <<calls, row, crossed, form>> /\ (lost' = lost \/ lost')
        BY <1>3 DEF TreeStep, ServeList, HandleResponse, HandleFailure, WaiterWakes, ListFails,
                    vars, hazardVars
    <2> QED
        BY <1>3, <2>1, SameCalls, SameForm, MisledStays
<1>4. ASSUME NEW c \in Slots, Serve(c) PROVE form' = form
    BY <1>4 DEF Serve, ServeChange, ServeSave, ReadMove, WriteMove, RefuseMove
<1>5. ASSUME NEW c \in Slots, Answer(c) \/ CallFails(c)
      PROVE  Finishes(c) /\ (lost' \/ Ends(c))
    BY <1>5, AnswerEnds
<1> QED
    BY <1>1, <1>2, <1>3, <1>4, <1>5, MisledStays DEF Next

-----------------------------------------------------------------------------
(* The calls, the form and the tree                                               *)

LEMMA SavesStep ==
    ASSUME TypeOK, CallsInv, SavesInv, [Next]_vars
    PROVE  SavesInv'
<1> SUFFICES ASSUME ~lost'
             PROVE  /\ \A c \in InFlight' : calls'[c].change = "create" => form' = New
                    /\ \A c \in InFlight' : calls'[c].change = "save" => form' \in Forms
                    /\ \A c, d \in InFlight' :
                        calls'[c].change \in {"create", "save"}
                        /\ calls'[d].change \in {"create", "save"} => c = d
    BY DEF SavesInv
<1> DEFINE Writes == {c \in InFlight : calls[c].change \in {"create", "save"}}
<1>1. ASSUME ~lost
      PROVE  /\ \A c \in Writes : calls[c].heard
             /\ ~Saving => Writes = {}
             /\ \A c \in InFlight : calls[c].change = "create" => form = New
             /\ \A c \in InFlight : calls[c].change = "save" => form \in Forms
             /\ \A c, d \in Writes : c = d
    <2>1. \A c \in Writes : calls[c].heard
        BY <1>1 DEF CallsInv
    <2>2. ~Saving => Writes = {}
        BY <2>1 DEF Saving
    <2> QED
        BY <1>1, <2>1, <2>2 DEF SavesInv
<1>2. ASSUME FormClosed, ~lost
      PROVE  Writes = {} \/ form' = form
    BY <1>1, <1>2 DEF FormClosed
<1>3. CASE Quiet /\ (FormKept \/ Opened \/ FormClosed)
    <2>1. ~lost /\ InFlight' = InFlight /\ \A c \in InFlight : calls'[c].change = calls[c].change
        BY <1>3 DEF Quiet, HearingKept, CallsKept
    <2>2. CASE FormKept
        BY <1>1, <2>1, <2>2 DEF FormKept, SameKind
    <2>3. CASE Opened
        <3>1. Writes = {}
            BY <1>1, <2>1, <2>3, NamesAssumption DEF Opened
        <3> QED
            BY <2>1, <3>1
    <2>4. CASE FormClosed
        BY <1>1, <1>2, <2>1, <2>4
    <2> QED
        BY <1>3, <2>2, <2>3, <2>4
<1>4. ASSUME NEW s \in Slots, Sends(s), Asks(s)
      PROVE  /\ \A c \in InFlight' : calls'[c].change = "create" => form' = New
             /\ \A c \in InFlight' : calls'[c].change = "save" => form' \in Forms
             /\ \A c, d \in InFlight' :
                 calls'[c].change \in {"create", "save"}
                 /\ calls'[d].change \in {"create", "save"} => c = d
    <2>1. /\ ~lost /\ InFlight' = InFlight \cup {s}
          /\ \A c \in InFlight : calls'[c].change = calls[c].change
        BY <1>4 DEF Sends, HearingKept, CallsKept
    <2>2. CASE Submits(s)
        <3>1. Writes = {}
            BY <1>1, <2>1, <2>2 DEF Submits
        <3>2. calls'[s].change = "create" => form' = New
            BY <2>2 DEF Submits, FormKept, SameKind
        <3>3. calls'[s].change = "save" => form' \in Forms
            BY <2>2 DEF Submits, FormKept, SameKind
        <3> QED
            BY <2>1, <3>1, <3>2, <3>3
    <2>3. CASE Deletes(s)
        BY <1>1, <1>2, <2>1, <2>3 DEF Deletes
    <2>4. CASE Switches(s) \/ Batches(s) \/ Moves(s)
        <3>1. SameKind
            BY <2>4 DEF Switches, Batches, Moves, EnabledSet, FormKept, PathSet
        <3>2. calls'[s].change \notin {"create", "save"}
            BY <2>4 DEF Switches, Batches, Moves, Switching
        <3> QED
            BY <1>1, <2>1, <3>1, <3>2 DEF SameKind
    <2> QED
        BY <1>4, <2>2, <2>3, <2>4 DEF Asks
<1>5. ASSUME NEW c \in Slots, Finishes(c), Ends(c)
      PROVE  /\ \A d \in InFlight' : calls'[d].change = "create" => form' = New
             /\ \A d \in InFlight' : calls'[d].change = "save" => form' \in Forms
             /\ \A d, e \in InFlight' :
                 calls'[d].change \in {"create", "save"}
                 /\ calls'[e].change \in {"create", "save"} => d = e
    <2>1. /\ ~lost /\ c \in InFlight /\ InFlight' = InFlight \ {c}
          /\ \A d \in InFlight \ {c} : calls'[d].change = calls[d].change
        BY <1>5 DEF Finishes, HearingKept, CallsKept
    <2>2. CASE EndsCreate(c)
        <3>1. Writes = {c}
            BY <1>1, <2>1, <2>2 DEF EndsCreate
        <3> QED
            BY <2>1, <3>1
    <2>3. CASE EndsBatch(c) /\ calls[c].change = "remove" /\ FormClosed
        BY <1>1, <1>2, <2>1, <2>3
    <2>4. CASE EndsQuietly(c) \/ EndsSave(c) \/ (EndsBatch(c) /\ calls[c].change # "remove")
        <3>1. SameKind
            BY <2>4 DEF EndsQuietly, EndsSave, EndsBatch, EnabledSet, FormKept
        <3> QED
            BY <1>1, <2>1, <3>1 DEF SameKind
    <2>5. CASE EndsBatch(c) /\ ~FormClosed
        BY <2>4, <2>5 DEF EndsBatch, Switching
    <2> QED
        BY <1>5, <2>2, <2>3, <2>4, <2>5 DEF Ends
<1>6. ASSUME NEW c \in Slots, Serve(c), form' = form
      PROVE  /\ \A d \in InFlight' : calls'[d].change = "create" => form' = New
             /\ \A d \in InFlight' : calls'[d].change = "save" => form' \in Forms
             /\ \A d, e \in InFlight' :
                 calls'[d].change \in {"create", "save"}
                 /\ calls'[e].change \in {"create", "save"} => d = e
    <2>1. /\ ~lost /\ InFlight' = InFlight
          /\ \A d \in InFlight : calls'[d].change = calls[d].change
        BY <1>6, ServeServes DEF Serves, CallsKept
    <2> QED
        BY <1>1, <1>6, <2>1
<1> QED
    BY <1>3, <1>4, <1>5, <1>6, FormKinds

\* A content set that has been created may be removed, but it never has not been created.
LEMMA RowStays ==
    ASSUME TypeOK, CallsInv, [Next]_vars, row # None
    PROVE  row' # None
BY StepKinds, ServeServes DEF Quiet, Sends, Finishes, Serves

LEMMA PastStep ==
    ASSUME TypeOK, TypeOK', LoadInv, CallsInv, PastInv, [Next]_vars
    PROVE  PastInv'
<1>1. row # None => row' # None
    BY RowStays
<1>2. /\ Len(nodes') \in Nat /\ DOMAIN nodes' = 1..Len(nodes')
      /\ (nodes' = <<>> <=> Len(nodes') = 0)
      /\ Len(lists') \in Nat /\ DOMAIN lists' = 1..Len(lists')
    BY EmptySeq, LenProperties DEF TypeOK
<1>3. CASE TreeKept
    <2>1. nodes' # <<>> => nodes # <<>>
        BY <1>2, <1>3, NodesLen DEF TreeKept, LeavesKept
    <2> QED
        BY <1>1, <1>3, <2>1 DEF PastInv, TreeKept
<1>4. CASE Reloads
    <2>1. nodes' = <<>> /\ Expand
        BY <1>4, ReloadsReload DEF Reload
    <2>2. CASE loading
        BY <1>1, <2>1, <2>2 DEF Expand, PastInv
    <2>3. CASE ~loading
        <3>1. lists' = Append(lists, Sent)
            BY <2>1, <2>3 DEF Expand
        <3>2. Sent \in ListTypes /\ lists \in Seq(ListTypes) /\ Sent.read = {}
            BY DEF Sent, ListTypes, TypeOK
        <3>3. \A j \in DOMAIN lists' : lists'[j].read = {} \/ (j \in DOMAIN lists /\ lists'[j] = lists[j])
            BY <1>2, <3>1, <3>2, AppendProperties, ListsLen
        <3> QED
            BY <1>1, <2>1, <3>3 DEF PastInv
    <2> QED
        BY <2>2, <2>3
<1>5. ASSUME NEW i \in DOMAIN lists, ServeList(i) PROVE PastInv'
    <2>1. PICK answer \in {[at |-> "served", read |-> IF Exists THEN {row} ELSE {}],
                           [at |-> "failed", read |-> {}]} :
            lists' = [lists EXCEPT ![i] = answer]
        BY <1>5 DEF ServeList
    <2>2. answer.read # {} => row # None
        BY <2>1, NamesAssumption DEF Exists
    <2>3. \A j \in DOMAIN lists' : j \in DOMAIN lists /\ lists'[j] = IF j = i THEN answer ELSE lists[j]
        BY <2>1
    <2>4. nodes' = nodes
        BY <1>5 DEF ServeList
    <2> QED
        BY <1>1, <2>2, <2>3, <2>4 DEF PastInv
<1>6. ASSUME NEW i \in DOMAIN lists, ListFails(i) PROVE PastInv'
    <2>1. lists' = [lists EXCEPT ![i].at = "vanished"] /\ nodes' = nodes
        BY <1>6 DEF ListFails
    <2>2. \A j \in DOMAIN lists' : j \in DOMAIN lists /\ lists'[j].read = lists[j].read
        BY <2>1, ListMember DEF ListTypes
    <2> QED
        BY <1>1, <2>1, <2>2 DEF PastInv
<1>7. ASSUME NEW i \in DOMAIN lists, HandleResponse(i) \/ HandleFailure(i) PROVE PastInv'
    <2>1. LoadComplete(i)
        BY <1>7 DEF HandleResponse, HandleFailure
    <2>2. DOMAIN lists' = {}
        <3>1. Len(lists') = Len(lists) - 1
            BY <2>1, CompleteType
        <3>2. i \in 1..Len(lists) /\ Len(lists) \in Nat
            BY ListsLen
        <3>3. Len(lists) = 0 \/ Len(lists) = 1
            BY DEF LoadInv, LoadingIsAwaited
        <3>4. Len(lists') = 0
            BY <3>1, <3>2, <3>3
        <3> QED
            BY <1>2, <3>4
    <2>3. nodes' = nodes \/ lists[i].read # {}
        BY <1>7 DEF HandleResponse, HandleFailure
    <2> QED
        BY <1>1, <2>2, <2>3 DEF PastInv
<1> QED
    BY <1>3, <1>4, <1>5, <1>6, <1>7, AsideKeepsTree, Dropped, NextParts

\* While the panel is masked no form is opened.
LEMMA MaskedTold ==
    ASSUME TypeOK, TypeOK', CallsInv, SavesInv, [Next]_vars, Told', Batch # {}
    PROVE  Told
<1>1. Masked /\ ~lost' /\ ~misled' /\ form' # Closed
    BY DEF Batch, Masked, Told
<1>2. ~Opened /\ \A s \in Slots : ~Asks(s)
    BY <1>1 DEF Opened, Asks
<1>3. ~misled
    BY <1>1, <1>2, FormKinds
<1>4. ~lost
    BY <1>1, <1>2, FormKinds, ServeServes DEF Quiet, Finishes, HearingKept, Serves
<1>5. FormKept \/ SameKind => form # Closed
    BY <1>1, NamesAssumption DEF TypeOK, FormKept, SameKind
<1>6. FormClosed => form # Closed
    BY <1>1 DEF FormClosed
<1>7. ASSUME NEW c \in Slots, Finishes(c), Ends(c) PROVE form # Closed
    <2>1. CASE EndsCreate(c)
        BY <1>4, <1>7, <2>1, NamesAssumption DEF EndsCreate, SavesInv, Finishes
    <2> QED
        BY <1>5, <1>6, <1>7, <2>1 DEF Ends, EndsQuietly, EndsSave, EndsBatch, EnabledSet
<1>8. form # Closed
    BY <1>1, <1>2, <1>5, <1>6, <1>7, FormKinds
<1> QED
    BY <1>3, <1>4, <1>8 DEF Told

\* Calls that are kept, or are over, say no more than before.
LEMMA BatchKept ==
    ASSUME BatchInv, InFlight' \subseteq InFlight, CallsKept(InFlight'), row' = row,
           crossed' = crossed, Told' /\ Batch # {} => Told
    PROVE  BatchInv'
<1>1. \A c \in InFlight' :
        /\ c \in InFlight /\ calls'[c].at = calls[c].at /\ calls'[c].change = calls[c].change
        /\ calls'[c].set = calls[c].set /\ calls'[c].multi = calls[c].multi
    BY DEF CallsKept
<1>2. Batch' \subseteq Batch /\ Unserved' \subseteq Unserved
    BY <1>1 DEF Batch, Unserved
<1>3. \A c \in Batch' \cup Unserved' : c \in InFlight'
    BY DEF Batch, Unserved
<1> QED
    BY <1>1, <1>2, <1>3 DEF BatchInv, Exists

LEMMA BatchStep ==
    ASSUME TypeOK, TypeOK', CallsInv, PastInv, SavesInv, BatchInv, [Next]_vars
    PROVE  BatchInv'
<1> Told' /\ Batch # {} => Told
    BY MaskedTold
<1>1. CASE Quiet
    BY <1>1, BatchKept DEF Quiet
<1>2. ASSUME NEW c \in Slots, Finishes(c) PROVE BatchInv'
    <2>1. InFlight' = InFlight \ {c} /\ row' = row /\ crossed' = crossed /\ CallsKept(InFlight')
        BY <1>2 DEF Finishes
    <2> QED
        BY <2>1, BatchKept
<1>3. ASSUME NEW s \in Slots, Sends(s), Asks(s) PROVE BatchInv'
    <2>1. /\ s \notin InFlight /\ InFlight' = InFlight \cup {s} /\ CallsKept(InFlight)
          /\ calls'[s].at = "sent" /\ row' = row
          /\ crossed' = (crossed \/ \E d \in Unserved : Conflict(calls[d], calls'[s]))
        BY <1>3 DEF Sends
    <2>2. Batch = {}
        BY <1>3 DEF Asks, Masked, Batch
    <2>3. Batch' \subseteq {s}
        BY <2>1, <2>2 DEF Batch, CallsKept
    <2>4. CASE s \notin Batch'
        BY <2>3, <2>4 DEF BatchInv
    <2>5. CASE s \in Batch'
        <3>1. /\ calls'[s].change \in Switching \cup {"remove"} /\ nodes # <<>>
            BY <1>3, <2>5 DEF Batch, Asks, Switches, Deletes, Batches, Submits, Moves
        <3>2. row' # None
            BY <2>1, <3>1 DEF PastInv
        <3>3. \A c \in Unserved' : c = s \/ (c \in Unserved /\ calls'[c].set = calls[c].set
                                                /\ calls'[c].change = calls[c].change)
            BY <2>1 DEF Unserved, CallsKept
        <3>4. ASSUME ~crossed', calls'[s].change \in Switching, NEW c \in Unserved'
              PROVE  /\ calls'[c].change # "move"
                     /\ calls'[c].change \in Switching \cup {"save"} =>
                         calls'[c].set.enabled = calls'[s].set.enabled
            <4>1. c # s => ~Conflict(calls[c], calls'[s])
                BY <2>1, <3>3, <3>4
            <4> QED
                BY <3>3, <3>4, <4>1 DEF Conflict, Switching
        <3>5. calls'[s].at # "served"
            BY <2>1
        <3> QED
            BY <2>1, <2>3, <3>1, <3>2, <3>4, <3>5 DEF BatchInv
    <2> QED
        BY <2>4, <2>5
<1>4. ASSUME NEW c \in Slots, Serve(c) PROVE BatchInv'
    <2>1. /\ c \in Unserved /\ InFlight' = InFlight /\ CallsKept(InFlight \ {c})
          /\ calls'[c].change = calls[c].change /\ calls'[c].multi = calls[c].multi
          /\ calls'[c].set = calls[c].set \/ calls[c].change = "move"
          /\ row # None => row' # None
          /\ crossed' = crossed
        BY <1>4, ServeServes DEF Serves
    <2>2. c \in InFlight /\ calls[c] \in Calls /\ DOMAIN calls = Slots
        BY <2>1, CallMember DEF Unserved, TypeOK
    <2>3. Batch' = Batch
        BY <2>1, <2>2 DEF Batch, CallsKept
    <2>4. \A d \in InFlight : calls'[d].change = calls[d].change
        BY <2>1 DEF CallsKept
    <2>5. \A d \in Batch : d \in InFlight /\ calls'[d].set = calls[d].set
        BY <2>1 DEF Batch, BatchInv, Switching, CallsKept
    <2>6. ASSUME c \in Batch
          PROVE  /\ calls'[c].at = "served"
                 /\ calls[c].change \in Switching /\ Told' /\ Exists' =>
                        row'.enabled = calls[c].set.enabled
        <3>1. ServeChange(c)
            BY <1>4, <2>6
            DEF Serve, ServeSave, ReadMove, WriteMove, RefuseMove, BatchInv, Switching
        <3>2. At(c, "served") /\ form' = form
            BY <3>1 DEF ServeChange
        <3>3. calls'[c].at = "served"
            BY <2>2, <3>2 DEF At, Calls
        <3>4. ASSUME calls[c].change \in Switching, Told', Exists'
              PROVE  row'.enabled = calls[c].set.enabled
            <4>1. ~Neglect(c) /\ Change(c)
                BY <3>1, <3>2, <3>4 DEF ServeChange, Neglect, Told, Exists, Switching
            <4>2. Exists /\ row \in Sets
                BY <3>4, <4>1 DEF Change, Exists
            <4>3. row' = [row EXCEPT !.enabled = calls[c].set.enabled]
                BY <3>4, <4>1, <4>2 DEF Change, Switching
            <4> QED
                BY <4>2, <4>3 DEF Sets
        <3> QED
            BY <3>3, <3>4
    <2>7. \A d \in Batch : calls'[d].at \in {"sent", "served"}
        BY <2>1, <2>5, <2>6 DEF BatchInv, CallsKept
    <2>8. \A d \in Unserved' : d \in Unserved
        BY <2>1 DEF Unserved, CallsKept
    <2>9. ASSUME ~crossed, NEW b \in Batch, calls[b].change \in Switching
          PROVE  /\ \A d \in Unserved' :
                    /\ calls'[d].change # "move"
                    /\ calls'[d].change \in Switching \cup {"save"} =>
                        calls'[d].set.enabled = calls'[b].set.enabled
                 /\ Told' /\ calls'[b].at = "served" /\ Exists' =>
                        row'.enabled = calls'[b].set.enabled
        <3>1. \A d \in Unserved :
                /\ calls[d].change # "move"
                /\ calls[d].change \in Switching \cup {"save"} =>
                    calls[d].set.enabled = calls[b].set.enabled
            BY <2>9 DEF BatchInv
        <3>2. \A d \in Unserved : d \in InFlight /\ calls'[d].set = calls[d].set
            BY <2>1, <3>1 DEF Unserved, CallsKept
        <3>3. ASSUME Told', calls'[b].at = "served", Exists'
              PROVE  row'.enabled = calls[b].set.enabled
            <4>1. CASE b = c
                BY <2>6, <2>9, <3>3, <4>1
            <4>2. CASE b # c
                <5>1. calls[b].at = "served" /\ row # None
                    BY <2>1, <2>5, <2>9, <3>3, <4>2 DEF CallsKept, BatchInv
                <5>2. Exists => row.enabled = calls[b].set.enabled
                    BY <2>9, <3>3, <5>1 DEF BatchInv
                <5>3. calls[c].change # "move"
                    BY <2>1, <3>1
                <5>4. CASE ServeChange(c)
                    <6>1. CASE row' = row
                        BY <2>1, <3>3, <5>2, <6>1 DEF Exists
                    <6>2. CASE row' # row
                        <7>1. /\ Exists /\ row \in Sets /\ calls[c].change \in Switching
                              /\ row' = [row EXCEPT !.enabled = calls[c].set.enabled]
                            BY <3>3, <5>4, <6>2, NamesAssumption
                            DEF ServeChange, Change, Neglect, Exists, Switching
                        <7>2. row'.enabled = calls[c].set.enabled
                            BY <7>1 DEF Sets
                        <7> QED
                            BY <2>1, <3>1, <7>1, <7>2
                    <6> QED
                        BY <6>1, <6>2
                <5>5. CASE ServeSave(c)
                    <6>1. row' = row \/ (calls[c].change = "save" /\ row' = calls[c].set)
                        BY <5>1, <5>5 DEF ServeSave
                    <6> QED
                        BY <2>1, <3>1, <3>3, <5>2, <6>1 DEF Exists
                <5> QED
                    BY <1>4, <2>2, <5>3, <5>4, <5>5 DEF Serve, ReadMove, WriteMove, RefuseMove, CallsInv
            <4> QED
                BY <4>1, <4>2
        <3> QED
            BY <2>4, <2>5, <2>8, <2>9, <3>1, <3>2, <3>3
    <2> QED
        BY <2>1, <2>3, <2>4, <2>5, <2>7, <2>9 DEF BatchInv
<1> QED
    BY <1>1, <1>2, <1>3, <1>4, FormKinds

-----------------------------------------------------------------------------
(* The form                                                                       *)

\* What is left of the calls says the same of a form that is the same.
LEMMA AgreedKept ==
    ASSUME Unserved' = Unserved, Batch' = Batch, row' = row, FormKept, form \in Forms,
           CallsKept(Unserved \cup Batch)
    PROVE  (Closing => Closing') /\ (Agreed => Agreed')
<1>1. \A c \in Unserved \cup Batch :
        /\ calls'[c].at = calls[c].at /\ calls'[c].change = calls[c].change
        /\ calls'[c].set = calls[c].set /\ calls'[c].multi = calls[c].multi
    BY DEF CallsKept
<1>2. Closing => Closing'
    BY <1>1 DEF Closing
<1>3. form'.set = form.set
    BY DEF FormKept
<1>4. \A enabled \in BOOLEAN : Asked(enabled)' => Asked(enabled)
    BY <1>1, <1>3 DEF Asked
<1>5. ASSUME Agreed PROVE Agreed'
    BY <1>1, <1>3, <1>4, <1>5 DEF Agreed, Exists
<1> QED
    BY <1>2, <1>5

\* The form is opened on what the server has, and nothing is out.
LEMMA FormQuiet ==
    ASSUME TypeOK, FormInv, Quiet, Opened \/ ((misled => misled') /\ (FormKept \/ FormClosed))
    PROVE  FormInv'
<1> SUFFICES ASSUME ~lost', ~crossed', ~misled', form' \in Forms, form'.upToDate
             PROVE  Closing' \/ Agreed'
    BY DEF FormInv
<1>1. /\ InFlight' = InFlight /\ CallsKept(InFlight) /\ row' = row /\ ~crossed /\ ~lost
    BY DEF Quiet, HearingKept
<1>2. Unserved' = Unserved /\ Batch' = Batch /\ CallsKept(Unserved \cup Batch)
    BY <1>1 DEF Unserved, Batch, CallsKept
<1>3. CASE FormKept /\ (misled => misled')
    <2>1. form \in Forms /\ form.upToDate
        BY <1>3 DEF FormKept, SameKind
    <2> QED
        BY <1>1, <1>2, <1>3, <2>1, AgreedKept DEF FormInv
<1>4. CASE Opened
    <2>1. form'.set = row /\ row \in Sets /\ Unserved = {} /\ Batch = {}
        BY <1>4 DEF Opened, Masked, Batch
    <2> QED
        BY <1>1, <1>2, <2>1 DEF Agreed, Asked, Exists
<1> QED
    BY <1>3, <1>4 DEF FormClosed

\* What the administrator sends either brings the server to what the form has now, or
\* crosses another call.
LEMMA FormSends ==
    ASSUME TypeOK, FormInv, NEW s \in Slots, Sends(s), Asks(s), misled => misled'
    PROVE  FormInv'
<1> SUFFICES ASSUME ~lost', ~crossed', ~misled', form' \in Forms, form'.upToDate
             PROVE  Agreed'
    BY DEF FormInv
<1>1. /\ s \notin InFlight /\ InFlight' = InFlight \cup {s} /\ CallsKept(InFlight)
      /\ calls'[s].at = "sent" /\ row' = row /\ ~crossed /\ ~lost
      /\ \A d \in Unserved : ~Conflict(calls[d], calls'[s])
    BY DEF Sends, HearingKept
<1>2. Batch = {} /\ ~Closing
    BY DEF Asks, Masked, Batch, Closing
<1>3. Unserved' = Unserved \cup {s} /\ s \notin Unserved
    BY <1>1 DEF Unserved, CallsKept
<1>4. \A d \in Unserved :
        /\ calls'[d].change = calls[d].change
        /\ calls'[d].set = calls[d].set /\ calls'[d].multi = calls[d].multi
    BY <1>1 DEF Unserved, CallsKept
<1>5. Batch' = IF calls'[s].multi THEN {s} ELSE {}
    BY <1>1, <1>2 DEF Batch, CallsKept
<1>6. ~Deletes(s)
    BY DEF Deletes, FormClosed
<1>7. form \in Forms /\ form.upToDate /\ form.set.enabled \in BOOLEAN /\ form.set \in Sets
    <2>1. form \in Forms /\ form.upToDate
        BY <1>6
        DEF Asks, Switches, Batches, Submits, Moves, EnabledSet, PathSet, FormKept, SameKind
    <2> QED
        BY <2>1 DEF Forms, Sets
<1>8. Agreed
    BY <1>1, <1>2, <1>7 DEF FormInv
<1>9. Asked(form.set.enabled)
    BY <1>2 DEF Asked
<1>10. /\ Exists
       /\ \A c \in Unserved : calls[c].change = "remove" => calls[c].multi
       /\ \A c \in Unserved :
            calls[c].change \in {"save", "move"} => calls[c].set.path = form.set.path
       /\ row.path = form.set.path \/ \E c \in Unserved : calls[c].change = "move"
       /\ \A c \in Unserved :
            calls[c].change \in Switching \cup {"save"} =>
                calls[c].set.enabled = form.set.enabled
       /\ row.enabled = form.set.enabled \/ \E c \in Unserved : calls[c].change \in Switching
    BY <1>7, <1>8, <1>9 DEF Agreed
<1>11. ASSUME NEW enabled \in BOOLEAN, calls'[s].change \in Switching,
              calls'[s].set.enabled = enabled, form'.set.path = form.set.path,
              \A e \in BOOLEAN : Asked(e)' => e = enabled
       PROVE  Agreed'
    <2>1. \A c \in Unserved : calls[c].change \in Switching \cup {"save"} =>
            calls[c].set.enabled = enabled
        BY <1>1, <1>11 DEF Conflict, Switching
    <2>2. calls'[s].change \notin {"remove", "save", "move"}
        BY <1>11 DEF Switching
    <2> QED
        BY <1>1, <1>3, <1>4, <1>10, <1>11, <2>1, <2>2 DEF Agreed, Exists
<1>12. CASE Switches(s)
    <2>1. PICK enabled \in BOOLEAN :
            /\ calls'[s].change \in Switching /\ calls'[s].set.enabled = enabled
            /\ ~calls'[s].multi
            /\ EnabledSet(enabled)
        BY <1>12 DEF Switches
    <2>2. form'.set.enabled = enabled /\ form'.set.path = form.set.path
        BY <1>7, <2>1 DEF EnabledSet, Sets
    <2>3. Batch' = {}
        BY <1>5, <2>1
    <2>4. \A e \in BOOLEAN : Asked(e)' => e = enabled
        BY <2>2, <2>3 DEF Asked
    <2> QED
        BY <1>11, <2>1, <2>2, <2>4
<1>13. CASE Batches(s)
    <2>1. /\ calls'[s].change \in Switching \cup {"remove"} /\ calls'[s].multi
          /\ form'.set = form.set
        BY <1>7, <1>13 DEF Batches, FormKept
    <2>2. Batch' = {s}
        BY <1>5, <2>1
    <2>3. CASE calls'[s].change \in Switching
        <3>1. calls'[s].set.enabled \in BOOLEAN \/ ~\E e \in BOOLEAN : Asked(e)'
            BY <2>2, <2>3 DEF Asked
        <3>2. \A e \in BOOLEAN : Asked(e)' => e = calls'[s].set.enabled
            BY <2>2, <2>3 DEF Asked
        <3>3. CASE calls'[s].set.enabled \in BOOLEAN
            BY <1>11, <2>1, <2>3, <3>2, <3>3
        <3>4. CASE ~\E e \in BOOLEAN : Asked(e)'
            <4>1. calls'[s].change \notin {"remove", "save", "move"}
                BY <2>3 DEF Switching
            <4> QED
                BY <1>1, <1>3, <1>4, <1>10, <2>1, <3>4, <4>1 DEF Agreed, Exists
        <3> QED
            BY <3>1, <3>3, <3>4
    <2>4. CASE calls'[s].change = "remove"
        <3>1. \A e \in BOOLEAN : Asked(e)' => e = form.set.enabled
            BY <2>1, <2>2, <2>4 DEF Asked, Switching
        <3>2. calls'[s].change \notin Switching \cup {"save", "move"}
            BY <2>4 DEF Switching
        <3> QED
            BY <1>1, <1>3, <1>4, <1>10, <2>1, <3>1, <3>2 DEF Agreed, Exists
    <2> QED
        BY <2>1, <2>3, <2>4
<1>14. CASE Submits(s)
    <2>1. /\ calls'[s].change = "save" /\ calls'[s].set = form.set /\ ~calls'[s].multi
          /\ form'.set = form.set
        BY <1>7, <1>14, NamesAssumption DEF Submits, FormKept
    <2>2. \A e \in BOOLEAN : Asked(e)' => e = form.set.enabled
        BY <1>5, <2>1 DEF Asked
    <2> QED
        BY <1>1, <1>3, <1>4, <1>10, <2>1, <2>2 DEF Agreed, Exists
<1>15. CASE Moves(s)
    <2>1. /\ calls'[s].change = "move" /\ ~calls'[s].multi
          /\ form'.set = [form.set EXCEPT !.path = calls'[s].set.path]
        BY <1>7, <1>15 DEF Moves, PathSet
    <2>2. form'.set.path = calls'[s].set.path /\ form'.set.enabled = form.set.enabled
        BY <1>7, <2>1 DEF Sets
    <2>3. \A e \in BOOLEAN : Asked(e)' => e = form.set.enabled
        BY <1>5, <2>1, <2>2 DEF Asked
    <2>4. \A c \in Unserved : calls[c].change \notin {"save", "move"}
        BY <1>1, <2>1 DEF Conflict
    <2>5. calls'[s].change \notin Switching \cup {"save", "remove"}
        BY <2>1 DEF Switching
    <2> QED
        BY <1>1, <1>3, <1>4, <1>10, <2>1, <2>2, <2>3, <2>4, <2>5 DEF Agreed, Exists
<1> QED
    BY <1>6, <1>12, <1>13, <1>14, <1>15 DEF Asks

\* An answer tells the form what the call has done, if anything.
LEMMA FormFinishes ==
    ASSUME TypeOK, SavesInv, BatchInv, FormInv, misled => misled',
           NEW c \in Slots, Finishes(c), lost' \/ Ends(c)
    PROVE  FormInv'
<1> SUFFICES ASSUME ~lost', ~crossed', ~misled', form' \in Forms, form'.upToDate
             PROVE  Closing' \/ Agreed'
    BY DEF FormInv
<1>1. /\ c \in InFlight /\ InFlight' = InFlight \ {c} /\ CallsKept(InFlight \ {c})
      /\ row' = row /\ ~crossed /\ ~lost
    BY DEF Finishes, HearingKept
<1>2. calls[c].at \in {"served", "refused"}
    BY DEF Ends, EndsQuietly, EndsSave, EndsCreate, EndsBatch
<1>3. Unserved' = Unserved /\ Unserved \subseteq InFlight \ {c}
    BY <1>1, <1>2 DEF Unserved, CallsKept
<1>4. Batch' = Batch \ {c}
    BY <1>1 DEF Batch, CallsKept
<1>5. \A d \in InFlight \ {c} :
        /\ d \in InFlight' /\ calls'[d].at = calls[d].at /\ calls'[d].change = calls[d].change
        /\ calls'[d].set = calls[d].set /\ calls'[d].multi = calls[d].multi
    BY <1>1 DEF CallsKept
<1>6. CASE EndsQuietly(c) \/ EndsSave(c)
    <2>1. c \notin Batch /\ FormKept
        BY <1>6 DEF EndsQuietly, EndsSave, Batch, BatchInv, Switching
    <2>2. CallsKept(Unserved \cup Batch)
        BY <1>1, <1>3, <2>1 DEF CallsKept, Batch
    <2>3. form \in Forms /\ form.upToDate
        BY <2>1 DEF FormKept, SameKind
    <2> QED
        BY <1>1, <1>3, <1>4, <2>1, <2>2, <2>3, AgreedKept DEF FormInv
<1>7. CASE EndsCreate(c)
    <2>1. form'.set = NewSet /\ row = NewSet /\ Unserved = {}
        BY <1>7 DEF EndsCreate
    <2>2. Exists
        BY <2>1, SetTypes DEF Exists
    <2>3. ASSUME NEW enabled \in BOOLEAN, Asked(enabled)' PROVE row.enabled = enabled
        <3>1. CASE enabled = form'.set.enabled
            BY <2>1, <3>1
        <3>2. ASSUME NEW b \in Batch', calls'[b].change \in Switching,
                     enabled = calls'[b].set.enabled
              PROVE  row.enabled = enabled
            <4>1. b \in Batch /\ b \in InFlight \ {c} /\ b \notin Unserved
                BY <1>4, <2>1 DEF Batch
            <4>2. calls[b].at = "served"
                BY <4>1 DEF BatchInv, Unserved
            <4>3. Told
                BY <1>1, <1>7, NamesAssumption DEF Told, SavesInv, EndsCreate
            <4> QED
                BY <1>1, <1>5, <2>2, <3>2, <4>1, <4>2, <4>3 DEF BatchInv
        <3> QED
            BY <2>3, <3>1, <3>2 DEF Asked
    <2> QED
        BY <1>1, <1>3, <2>1, <2>2, <2>3 DEF Agreed, Exists
<1>8. CASE EndsBatch(c)
    <2>1. /\ c \in Batch /\ calls[c].change \in Switching /\ EnabledSet(calls[c].set.enabled)
        BY <1>1, <1>8 DEF EndsBatch, FormClosed, Batch
    <2>2. Batch = {c} /\ ~Closing
        BY <2>1 DEF BatchInv, Closing, Switching
    <2>3. form \in Forms /\ form.upToDate /\ form.set \in Sets
        BY <2>1 DEF EnabledSet, SameKind, Forms
    <2>4. calls[c].set.enabled \in BOOLEAN /\ Agreed
        BY <1>1, <2>2, <2>3, CallMember DEF FormInv, Calls, Sets
    <2>5. Asked(calls[c].set.enabled)
        BY <2>1 DEF Asked
    <2>6. form'.set.enabled = calls[c].set.enabled /\ form'.set.path = form.set.path
        BY <2>1, <2>3, <2>4 DEF EnabledSet, Sets
    <2>7. \A e \in BOOLEAN : Asked(e)' => e = calls[c].set.enabled
        BY <1>4, <2>2, <2>6 DEF Asked
    <2> QED
        BY <1>1, <1>3, <1>5, <2>4, <2>5, <2>6, <2>7 DEF Agreed, Exists
<1> QED
    BY <1>6, <1>7, <1>8 DEF Ends

\* What the server does is what the form has been told, or will be.
LEMMA FormServes ==
    ASSUME TypeOK, CallsInv, MovesInv, SavesInv, BatchInv, FormInv,
           NEW c \in Slots, Serve(c), form' = form, misled => misled'
    PROVE  FormInv'
<1> SUFFICES ASSUME ~lost', ~crossed', ~misled', form' \in Forms, form'.upToDate
             PROVE  Closing' \/ Agreed'
    BY DEF FormInv
<1>1. /\ c \in Unserved /\ InFlight' = InFlight /\ CallsKept(InFlight \ {c})
      /\ calls'[c].change = calls[c].change /\ calls'[c].multi = calls[c].multi
      /\ calls'[c].set.path = calls[c].set.path
      /\ calls'[c].set = calls[c].set \/ calls[c].change = "move"
      /\ ~lost /\ ~crossed
    BY ServeServes DEF Serves
<1>2. /\ c \in InFlight /\ calls[c] \in Calls /\ DOMAIN calls = Slots
      /\ calls[c].at \in {"sent", "read"}
    BY <1>1, CallMember DEF Unserved, TypeOK
<1>3. \A d \in InFlight \ {c} :
        /\ calls'[d].at = calls[d].at /\ calls'[d].change = calls[d].change
        /\ calls'[d].set = calls[d].set /\ calls'[d].multi = calls[d].multi
    BY <1>1 DEF CallsKept
<1>4. Batch' = Batch /\ \A b \in Batch : calls'[b].set = calls[b].set
                                       /\ calls'[b].change = calls[b].change
    BY <1>1, <1>2, <1>3 DEF Batch, BatchInv, Switching
<1>5. Unserved' = IF calls'[c].at \in {"sent", "read"} THEN Unserved ELSE Unserved \ {c}
    BY <1>1, <1>2, <1>3 DEF Unserved
<1>6. Unserved \subseteq InFlight
    BY DEF Unserved
<1>7. CASE Closing
    <2>1. PICK b \in Batch : calls[b].change = "remove" /\ calls[b].at = "served"
        BY <1>7 DEF Closing
    <2>2. b \in InFlight \ {c}
        BY <1>2, <2>1 DEF Batch
    <2> QED
        BY <1>3, <1>4, <2>1, <2>2 DEF Closing
<1>8. CASE Agreed
    <2>1. form \in Forms /\ form # New
        BY NamesAssumption
    <2>2. \A e \in BOOLEAN : Asked(e)' => Asked(e)
        BY <1>4 DEF Asked
    <2>3. At(c, "served") => calls'[c].at = "served"
        BY <1>2 DEF At, Calls
    <2>4. At(c, "refused") => calls'[c].at = "refused"
        BY <1>2 DEF At, Calls
    <2>5. row \in Sets
        BY <1>8 DEF Agreed, Exists
    \* A call that is served leaves what it has brought about.
    <2>6. ASSUME Unserved' = Unserved \ {c}, Exists',
                 row'.path = form.set.path \/ (row'.path = row.path /\ calls[c].change # "move"),
                 \A e \in BOOLEAN : Asked(e) =>
                    row'.enabled = e \/ (row'.enabled = row.enabled /\ calls[c].change \notin Switching)
          PROVE  Agreed'
        <3>1. \A d \in Unserved' :
                /\ d \in Unserved /\ calls'[d].change = calls[d].change
                /\ calls'[d].set = calls[d].set /\ calls'[d].multi = calls[d].multi
            BY <1>3, <1>6, <2>6
        <3>2. (\E d \in Unserved : calls[d].change = "move") /\ calls[c].change # "move"
                => \E d \in Unserved' : calls'[d].change = "move"
            BY <2>6, <3>1
        <3>3. (\E d \in Unserved : calls[d].change \in Switching) /\ calls[c].change \notin Switching
                => \E d \in Unserved' : calls'[d].change \in Switching
            BY <2>6, <3>1
        <3>4. row'.path = form.set.path \/ \E d \in Unserved' : calls'[d].change = "move"
            BY <1>8, <2>6, <3>2 DEF Agreed
        <3>5. ASSUME NEW e \in BOOLEAN, Asked(e)'
              PROVE  /\ \A d \in Unserved' :
                        calls'[d].change \in Switching \cup {"save"} => calls'[d].set.enabled = e
                     /\ row'.enabled = e \/ \E d \in Unserved' : calls'[d].change \in Switching
            BY <1>8, <2>2, <2>6, <3>1, <3>3, <3>5 DEF Agreed
        <3> QED
            BY <1>8, <2>6, <3>1, <3>4, <3>5 DEF Agreed
    <2>7. CASE ServeChange(c) /\ calls[c].change = "remove"
        <3>1. calls[c].multi /\ c \in Batch
            BY <1>1, <1>2, <1>8, <2>7 DEF Agreed, Batch
        <3>2. calls'[c].at = "served"
            BY <2>3, <2>7 DEF ServeChange
        <3> QED
            BY <1>1, <1>4, <2>7, <3>1, <3>2 DEF Closing
    <2>8. CASE ServeChange(c) /\ calls[c].change # "remove"
        <3>0. Change(c)
            BY <2>1, <2>5, <2>8, NamesAssumption DEF ServeChange, Neglect, Exists
        <3>1. /\ calls'[c].at = "served" /\ calls[c].change \in Switching
              /\ row' = [row EXCEPT !.enabled = calls[c].set.enabled]
            BY <2>3, <2>5, <2>8, <3>0 DEF ServeChange, Change, Exists, Switching
        <3>2. calls[c].set.enabled \in BOOLEAN
            BY <1>2 DEF Calls, Sets
        <3>3. row' \in Sets /\ row'.path = row.path /\ row'.enabled = calls[c].set.enabled
            BY <2>5, <3>1, <3>2 DEF Sets
        <3>4. \A e \in BOOLEAN : Asked(e) => row'.enabled = e
            BY <1>1, <1>8, <3>1, <3>3 DEF Agreed
        <3>5. calls[c].change # "move"
            BY <3>1 DEF Switching
        <3> QED
            BY <1>5, <2>6, <3>1, <3>3, <3>4, <3>5 DEF Exists
    <2>9. CASE ServeSave(c)
        <3>1. calls[c].change = "save"
            BY <1>1, <1>2, <2>1, <2>9 DEF ServeSave, SavesInv
        <3>2. calls[c].change # "move" /\ calls[c].change \notin Switching
            BY <3>1 DEF Switching
        <3>3. CASE row' = calls[c].set /\ At(c, "served")
            <4>1. row' \in Sets /\ Unserved' = Unserved \ {c}
                BY <1>2, <1>5, <2>3, <3>3 DEF Calls
            <4>2. row'.path = form.set.path
                BY <1>1, <1>8, <3>1, <3>3 DEF Agreed
            <4>3. \A e \in BOOLEAN : Asked(e) => row'.enabled = e
                BY <1>1, <1>8, <3>1, <3>3 DEF Agreed
            <4> QED
                BY <2>6, <4>1, <4>2, <4>3 DEF Exists
        <3>4. CASE row' = row /\ At(c, "refused")
            <4>1. Unserved' = Unserved \ {c} /\ Exists'
                BY <1>5, <2>4, <2>5, <3>4 DEF Exists
            <4> QED
                BY <2>6, <3>2, <3>4, <4>1
        <3> QED
            BY <2>9, <3>3, <3>4 DEF ServeSave
    <2>10. CASE ReadMove(c)
        <3>1. /\ calls' = [calls EXCEPT ![c].at = "read", ![c].set.enabled = row.enabled]
              /\ row' = row /\ calls[c].change = "move"
            BY <2>5, <2>10 DEF ReadMove, Exists
        <3>2. calls'[c].at = "read"
            BY <1>2, <3>1 DEF Calls
        <3>3. Unserved' = Unserved
            BY <1>5, <3>2
        <3>4. \A d \in Unserved :
                /\ calls'[d].change = calls[d].change /\ calls'[d].multi = calls[d].multi
                /\ calls'[d].set.path = calls[d].set.path
                /\ calls[d].change # "move" => calls'[d].set = calls[d].set
            BY <1>1, <1>3, <1>6
        <3>5. \A d \in Unserved : calls[d].change \in Switching \cup {"save", "remove"} =>
                calls'[d].set = calls[d].set
            BY <3>4 DEF Switching
        <3>6. \A d \in Unserved' : calls'[d].change = "remove" => calls'[d].multi
            BY <1>8, <3>3, <3>4 DEF Agreed
        <3>7. \A d \in Unserved' :
                calls'[d].change \in {"save", "move"} => calls'[d].set.path = form.set.path
            BY <1>8, <3>3, <3>4 DEF Agreed
        <3>8. row'.path = form.set.path \/ \E d \in Unserved' : calls'[d].change = "move"
            BY <1>8, <3>1, <3>3, <3>4 DEF Agreed
        <3>9. ASSUME NEW e \in BOOLEAN, Asked(e)'
              PROVE  /\ \A d \in Unserved' :
                        calls'[d].change \in Switching \cup {"save"} => calls'[d].set.enabled = e
                     /\ row'.enabled = e \/ \E d \in Unserved' : calls'[d].change \in Switching
            <4>1. /\ \A d \in Unserved :
                        calls[d].change \in Switching \cup {"save"} => calls[d].set.enabled = e
                  /\ row.enabled = e \/ \E d \in Unserved : calls[d].change \in Switching
                BY <1>8, <2>2, <3>9 DEF Agreed
            <4> QED
                BY <3>1, <3>3, <3>4, <3>5, <4>1
        <3> QED
            BY <2>5, <3>1, <3>6, <3>7, <3>8, <3>9 DEF Agreed, Exists
    <2>11. CASE WriteMove(c)
        <3>1. calls[c].at = "read" /\ row' = calls[c].set /\ calls'[c].at = "served"
            BY <2>3, <2>5, <2>11 DEF WriteMove, Exists
        <3>2. calls[c].change = "move" /\ calls[c].set.enabled = row.enabled
            BY <1>1, <1>2, <2>5, <3>1 DEF CallsInv, MovesInv, Exists
        <3>3. row'.path = form.set.path /\ row' \in Sets
            BY <1>1, <1>2, <1>8, <3>1, <3>2 DEF Agreed, Calls
        <3>4. calls[c].change \notin Switching
            BY <3>2 DEF Switching
        <3> QED
            BY <1>5, <2>6, <3>1, <3>2, <3>3, <3>4 DEF Exists
    <2>12. ~RefuseMove(c)
        BY <2>1, <2>5, NamesAssumption DEF RefuseMove, Exists
    <2> QED
        BY <2>7, <2>8, <2>9, <2>10, <2>11, <2>12 DEF Serve
<1> QED
    BY <1>1, <1>7, <1>8 DEF FormInv

LEMMA FormStep ==
    ASSUME TypeOK, CallsInv, MovesInv, SavesInv, BatchInv, FormInv, [Next]_vars
    PROVE  FormInv'
BY FormKinds, FormQuiet, FormSends, FormFinishes, FormServes

LEMMA FormInit == Init => PastInv /\ BatchInv /\ SavesInv /\ FormInv
<1> SUFFICES ASSUME Init PROVE PastInv /\ BatchInv /\ SavesInv /\ FormInv
    OBVIOUS
<1>1. InFlight = {} /\ Batch = {}
    BY DEF Init, InFlight, Batch
<1>2. DOMAIN lists = {} /\ form \notin Forms
    BY EmptySeq, NamesAssumption DEF Init
<1> QED
    BY <1>1, <1>2 DEF Init, PastInv, BatchInv, SavesInv, FormInv

LEMMA FormInvariance ==
    Spec => [](TypeOK /\ LoadInv /\ FreshInv /\ PastInv /\ BatchInv /\ SavesInv /\ FormInv)
<1>1. Init => PastInv /\ BatchInv /\ SavesInv /\ FormInv
    BY FormInit
<1>2. /\ TypeOK /\ TypeOK' /\ LoadInv /\ FreshInv
      /\ PastInv /\ BatchInv /\ SavesInv /\ FormInv /\ [Next]_vars
      => (PastInv /\ BatchInv /\ SavesInv /\ FormInv)'
    BY PastStep, BatchStep, SavesStep, FormStep DEF FreshInv
<1> QED
    BY <1>1, <1>2, FreshInvariance, PTL DEF Spec

\* A form that was up to date when it got its content set is what the server has, at
\* rest: what the menus, the toolbar, the tree and the form itself have changed reached
\* both, in whatever order the calls were served and answered, unless an answer was lost,
\* changes crossed, or the form was told of a change that the server did not carry out.
\* It is about one form at a time (ContentSetForm.prepareContentSet, UserPanel).
THEOREM FormRemainsTrue == Spec => []FormStaysTrue
<1>1. ASSUME TypeOK, FormInv PROVE FormStaysTrue
    <2> SUFFICES ASSUME AtRest, form \in Forms, ~lost, ~crossed, ~misled, form.upToDate
                 PROVE  form.set = row
        BY DEF FormStaysTrue
    <2>1. Unserved = {} /\ Batch = {}
        BY DEF AtRest, Unserved, Batch
    <2>2. Agreed
        BY <1>1, <2>1 DEF FormInv, Closing
    <2>3. form.set \in Sets /\ form.set.enabled \in BOOLEAN /\ row \in Sets
        BY <2>2 DEF Forms, Sets, Agreed, Exists
    <2>4. Asked(form.set.enabled)
        BY <2>1 DEF Asked
    <2>5. row.path = form.set.path /\ row.enabled = form.set.enabled
        BY <2>1, <2>2, <2>3, <2>4 DEF Agreed
    <2> QED
        BY <2>3, <2>5 DEF Sets
<1> QED
    BY <1>1, FormInvariance, PTL
=============================================================================
