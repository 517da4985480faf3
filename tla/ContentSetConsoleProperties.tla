---------------------- MODULE ContentSetConsoleProperties ----------------------
(* The properties of the web console.                                            *)
EXTENDS ContentSetConsole

AtRest == InFlight = {} /\ lists = <<>> /\ ~loading /\ waiters = 0

\* However reloads and their answers fall, the content set is in the tree at most once
\* (AsyncTreeNode.expand, DWRTreeLoader.processResponse).
NoDuplicates == Len(nodes) <= 1

\* A tree that says it is loading has a call out, or one that has failed, and never two
\* (AsyncTreeNode.expand, loadComplete).
LoadingIsAwaited == Len(lists) = IF loading THEN 1 ELSE 0

\* At rest the tree shows what the server has: the content set and whether it is enabled,
\* and a leaf that was dropped in another folder is there on the server too, unless a
\* move was refused since the tree was loaded, and unless an answer was lost, a reload
\* swallowed, or changes crossed (UserPanel.statusChanged).
TreeIsFresh ==
    AtRest /\ loaded /\ ~lost /\ ~swallowed /\ ~crossed =>
        /\ nodes = <<>> <=> ~Exists
        /\ \A i \in DOMAIN nodes :
            /\ nodes[i].attr.enabled = row.enabled
            /\ nodes[i].place # nodes[i].attr.path => row.path = nodes[i].place \/ strayed

\* A form that was up to date when it got its content set stays so through what is done
\* to it outside the form, so that saving it neither enables, disables nor moves the
\* content set, nor saves one that is gone, unless an answer was lost or changes
\* crossed, or the form was told of a change that the server then did not carry out
\* (ContentSetForm.prepareContentSet). This is about the only form open: a second one on
\* the same content set would hear of every change too, and share the menu's object.
FormStaysTrue ==
    AtRest /\ form \in Forms /\ ~lost /\ ~crossed /\ ~misled =>
        (form.upToDate => form.set = row)

\* The masks that lock the panel and the form go, whatever becomes of the call.
MasksGo == []<>(~Masked /\ ~Saving)

\* The tree comes to rest with its leaves, unless the call that loads it fails.
LoadEnds ==
    loading ~> \/ loaded /\ ~loading /\ waiters = 0
               \/ \E i \in DOMAIN lists : lists[i].at = "vanished"
=============================================================================
