-------------------------- MODULE InventoryExchange --------------------------
(* How the inventory of a content set reaches a consumer: the supplier's task     *)
(* (InventoryCreationTask, InventoryFactory, InventoryDifferencePruner,           *)
(* InventoryBundler) keeps an index, the differences that led to it and the       *)
(* bundles made of both; the consumer asks with the timestamp of its own          *)
(* inventory (SupplierContentSetManager.getFile) and takes over what it is sent   *)
(* (InventoryRetriever).                                                          *)
(*                                                                                *)
(* A file is named by a timestamp and what it is, so that a directory is a        *)
(* function from timestamps: None where there is no file. The content is what the *)
(* children of the root are; the version of a directory stands for all that is    *)
(* under it. Only one run of the supplier's task goes on at a time, its clock     *)
(* does not go back, and a request is answered between two of its steps.          *)
EXTENDS Naturals, FiniteSets

CONSTANTS
    Entries,     \* the names under the root of the content set
    Dirs,        \* those of directories
    Versions,    \* what an entry may be like
    MaxDiffs,    \* DEFAULT_PRUNE_VALUE
    MaxClock, MaxEdits, MaxFaults,  \* bounds
    None,        \* no file
    Same         \* an entry of which a difference says nothing

ASSUME ConstantsAssumption ==
    /\ Dirs \subseteq Entries
    /\ MaxClock \in Nat /\ MaxDiffs \in Nat /\ MaxEdits \in Nat /\ MaxFaults \in Nat
    /\ Same \notin Versions \cup {None}

VARIABLES
    clock,      \* the timestamp given last
    content,    \* the content set
    index,      \* the latest index of the open directory
    diffs,      \* the difference files there, by the timestamp of their source
    bundles,    \* the packaged directory: what a consumer may be sent
    temps,      \* the bundles there that have their temporary names
    pc,         \* where the run of the task is
    inv,        \* the latest index of the consumer
    history,    \* every index there has been
    published,  \* the bundles are, or will be made, those of the index
    astray,     \* differences went to a consumer that they were not made for
    edits, faults

supplierVars == <<clock, index, diffs, history>>
packageVars == <<bundles, temps, published>>
boundVars == <<edits, faults>>
vars == <<clock, content, index, diffs, bundles, temps, pc, inv, history, published,
          astray, edits, faults>>

Stamps == 1..MaxClock
Contents == [Entries -> Versions \cup {None}]
Inventories == [stamp : Stamps, content : Contents]
\* A change inside a directory that was there before is deep: the difference file has it
\* under the path of that directory, and not under the root.
Differences == [stamp : Stamps, changes : [Entries -> Versions \cup {None, Same}],
                deep : SUBSET Dirs]
\* A bundle holds an index, or differences; one that cannot be read, neither.
Bundles == [inventory : Inventories \cup {None}, diffs : SUBSET Differences]

ASSUME NoneAssumption == None \notin Inventories \cup Differences \cup Bundles

Steps == {"idle", "create", "apply", "prune", "package", "replace", "rename"}

TypeOK ==
    /\ clock \in 0..MaxClock
    /\ content \in Contents
    /\ index \in Inventories \cup {None}
    /\ diffs \in [Stamps -> Differences \cup {None}]
    /\ bundles \in [Stamps -> Bundles \cup {None}]
    /\ temps \in [Stamps -> Bundles \cup {None}]
    /\ pc \in Steps
    /\ pc \notin {"idle", "create"} => index # None
    /\ inv \in Inventories \cup {None}
    /\ history \subseteq Inventories
    /\ published \in BOOLEAN
    /\ astray \in BOOLEAN
    /\ edits \in 0..MaxEdits
    /\ faults \in 0..MaxFaults

Nothing == [s \in Stamps |-> None]
Named(files) == {s \in Stamps : files[s] # None}
Latest(files) == CHOOSE s \in Named(files) : \A t \in Named(files) : t <= s
Newest(D) == CHOOSE d \in D : \A e \in D : e.stamp <= d.stamp

Init ==
    /\ clock = 0
    /\ content \in Contents
    /\ index = None
    /\ diffs = Nothing
    /\ bundles = Nothing
    /\ temps = Nothing
    /\ pc = "idle"
    /\ inv = None
    /\ history = {}
    /\ published = TRUE
    /\ astray = FALSE
    /\ edits = 0
    /\ faults = 0

-----------------------------------------------------------------------------
(* Differences                                                                   *)

\* Mutant: the timestamp says "when the file is complete", and stays so.
DifferenceAtCompletion(old, new, stamp) ==
    [stamp |-> 0,
     changes |-> [e \in Entries |-> IF old[e] = new[e] THEN Same ELSE new[e]],
     deep |-> {}]

\* What the comparer finds between an index and the content, with a directory that was
\* added or removed as a whole.
Difference(old, new, stamp) ==
    [stamp |-> stamp,
     changes |-> [e \in Entries |-> IF old[e] = new[e] THEN Same ELSE new[e]],
     deep |-> {e \in Dirs : old[e] # new[e] /\ old[e] # None /\ new[e] # None}]

\* The same, of a comparison that was interrupted.
Part(d, E) == [d EXCEPT !.changes = [e \in Entries |-> IF e \in E THEN @[e] ELSE Same]]

\* The writer iterates over the children of a MergedNode. The iterator of an ArrayList
\* does not use get, which would wrap them in turn: a difference counts for the children
\* of the root, and nothing of it for what is deep.
Takes(d, e) == d.changes[e] # Same /\ e \notin d.deep

\* MergedNode.applyDifferences: the differences in the order of their timestamps.
Merge(c, D) ==
    [e \in Entries |->
        LET T == {d \in D : Takes(d, e)}
        IN  IF T = {} THEN c[e] ELSE Newest(T).changes[e]]

\* An inventory with differences applied to it, whatever its own timestamp is.
Merged(i, D) == [stamp |-> Newest(D).stamp, content |-> Merge(i.content, D)]

-----------------------------------------------------------------------------
(* A run of the supplier's task                                                  *)

Goto(from, to) == pc = from /\ pc' = to
Fault == faults < MaxFaults /\ faults' = faults + 1

\* There is no index that can be read, or it has another root: everything goes.
Cleanup ==
    /\ Goto("idle", "create")
    /\ index = None
    /\ clock < MaxClock
    /\ diffs' = Nothing
    /\ bundles' = Nothing
    /\ temps' = Nothing
    /\ published' = TRUE
    /\ UNCHANGED <<clock, content, index, inv, history, astray, boundVars>>

\* createInventory
Create ==
    /\ Goto("create", "prune")
    /\ clock' = clock + 1
    /\ index' = [stamp |-> clock + 1, content |-> content]
    /\ history' = history \cup {index'}
    /\ UNCHANGED <<content, diffs, packageVars, inv, astray, boundVars>>

\* scanDifferences writes what it finds, over what an earlier run found and did not
\* apply.
Scan ==
    /\ Goto("idle", "apply")
    /\ index # None
    /\ clock < MaxClock
    /\ content # index.content
    /\ clock' = clock + 1
    /\ diffs' = [diffs EXCEPT
                    ![index.stamp] = Difference(index.content, content, clock + 1)]
    /\ UNCHANGED <<content, index, packageVars, inv, history, astray, boundVars>>

\* Mutant: without differences there is nothing to do.
ScanUnchangedAborts ==
    /\ pc = "idle"
    /\ UNCHANGED vars

\* There are no differences, but neither are there bundles.
ScanUnchanged ==
    /\ Goto("idle", "prune")
    /\ index # None
    /\ content = index.content
    /\ bundles = Nothing
    /\ UNCHANGED <<supplierVars, content, packageVars, inv, astray, boundVars>>

\* The comparison stops at an interrupt, and its file is kept; the merge that follows is
\* interrupted too.
ScanCutShort ==
    /\ pc = "idle"
    /\ index # None
    /\ clock < MaxClock
    /\ Fault
    /\ clock' = clock + 1
    /\ \E E \in SUBSET {e \in Entries : content[e] # index.content[e]} \ {{}} :
        diffs' = [diffs EXCEPT
            ![index.stamp] = Part(Difference(index.content, content, clock + 1), E)]
    /\ UNCHANGED <<content, index, packageVars, pc, inv, history, astray, edits>>

\* applyDifferences, on the index the differences were found for
ApplyDifferences ==
    /\ Goto("apply", "prune")
    /\ index' = Merged(index, {diffs[index.stamp]})
    /\ history' = history \cup {index'}
    /\ UNCHANGED <<clock, content, diffs, packageVars, inv, astray, boundVars>>

\* Mutant: the newest go first.
KeptFirst(s) == Cardinality({t \in Named(diffs) : t <= s}) <= MaxDiffs

\* pruneFileCount deletes the oldest as long as there are too many.
Kept(s) == Cardinality({t \in Named(diffs) : t >= s}) <= MaxDiffs

\* The latest bundle has the name of the index.
UpToDate == bundles # Nothing /\ Latest(bundles) = index.stamp

Prune ==
    /\ pc = "prune"
    /\ diffs' = [s \in Stamps |-> IF Kept(s) THEN diffs[s] ELSE None]
    /\ pc' = IF UpToDate THEN "idle" ELSE "package"
    /\ UNCHANGED <<clock, content, index, packageVars, inv, history, astray, boundVars>>

-----------------------------------------------------------------------------
(* Bundles                                                                       *)

Broken == [inventory |-> None, diffs |-> {}]
IndexBundle == [inventory |-> index, diffs |-> {}]
DiffBundle(s) ==
    [inventory |-> None, diffs |-> {diffs[t] : t \in {u \in Named(diffs) : u >= s}}]

\* Mutant: the copy of the differences begins one too late.
WantedFromNext ==
    [s \in Stamps |-> IF s \in Named(diffs)
                      THEN [inventory |-> None,
                            diffs |-> {diffs[t] : t \in {u \in Named(diffs) : u > s}}]
                      ELSE IF s = index.stamp THEN IndexBundle ELSE None]

\* A bundle for the index, and one for each difference with those after it, under the
\* name of the inventory it leads from. A difference found for the index and not applied
\* has the name of the index.
Wanted ==
    [s \in Stamps |-> IF s \in Named(diffs) THEN DiffBundle(s)
                      ELSE IF s = index.stamp THEN IndexBundle
                      ELSE None]

\* All of them are written under temporary names, over what is left of earlier ones.
Package ==
    /\ pc = "package"
    /\ pc' = IF bundles = Nothing THEN "rename" ELSE "replace"
    /\ temps' = [s \in Stamps |-> IF Wanted[s] # None THEN Wanted[s] ELSE temps[s]]
    /\ astray' = (astray \/ diffs[index.stamp] # None)
    /\ UNCHANGED <<supplierVars, content, bundles, inv, published, boundVars>>

\* The run ends with an index whose bundles are not there: only if there are none at all
\* will the next run make them, unless it finds differences.
Unpublished == published' = (bundles = Nothing)

\* Writing one fails: the temporary ones go, the old ones stay.
PackageFails ==
    /\ Goto("package", "idle")
    /\ Fault
    /\ temps' = Nothing
    /\ Unpublished
    /\ UNCHANGED <<supplierVars, content, bundles, inv, astray, edits>>

\* The process stops while one is written; that of the index is the first, the others
\* follow by their names.
PackageTorn ==
    /\ Goto("package", "idle")
    /\ Fault
    /\ \E s \in Named(Wanted) :
        temps' = [t \in Stamps |->
            IF t = s THEN Broken
            ELSE IF s # index.stamp /\ Wanted[t] # None /\ (t < s \/ t = index.stamp)
            THEN Wanted[t] ELSE temps[t]]
    /\ astray' = (astray \/ diffs[index.stamp] # None)
    /\ Unpublished
    /\ UNCHANGED <<supplierVars, content, bundles, inv, edits>>

\* The old bundles are deleted, the oldest first.
Delete ==
    /\ pc = "replace"
    /\ \E s \in Named(bundles) :
        /\ \A t \in Named(bundles) : s <= t
        /\ bundles' = [bundles EXCEPT ![s] = None]
    /\ pc' = IF bundles' = Nothing THEN "rename" ELSE "replace"
    /\ UNCHANGED <<supplierVars, content, temps, inv, published, astray, boundVars>>

\* The new ones get their names in the order in which the directory lists them.
Rename ==
    /\ pc = "rename"
    /\ \E s \in Named(temps) :
        /\ bundles' = [bundles EXCEPT ![s] = temps[s]]
        /\ temps' = [temps EXCEPT ![s] = None]
    /\ pc' = IF temps' = Nothing THEN "idle" ELSE "rename"
    /\ published' = IF temps' = Nothing THEN bundles' = Wanted ELSE published
    /\ UNCHANGED <<supplierVars, content, inv, astray, boundVars>>

Supply ==
    \/ Cleanup \/ Create \/ Scan \/ ScanUnchanged \/ ApplyDifferences \/ Prune
    \/ Package \/ Delete \/ Rename

\* The process stops, or the run is interrupted or fails.
Stop ==
    /\ pc # "idle"
    /\ pc' = "idle"
    /\ Fault
    /\ IF pc \in {"create", "apply"} THEN UNCHANGED published ELSE Unpublished
    /\ UNCHANGED <<supplierVars, content, bundles, temps, inv, astray, edits>>

\* The index can no longer be read, or the content set got another path.
LoseIndex ==
    /\ pc = "idle"
    /\ index # None
    /\ index' = None
    /\ Fault
    /\ UNCHANGED <<clock, content, diffs, packageVars, pc, inv, history, astray, edits>>

\* The files of the content set change.
Edit ==
    /\ edits < MaxEdits /\ edits' = edits + 1
    /\ \E e \in Entries, v \in Versions \cup {None} :
        /\ v # content[e]
        /\ content' = [content EXCEPT ![e] = v]
    /\ UNCHANGED <<supplierVars, packageVars, pc, inv, astray, faults>>

-----------------------------------------------------------------------------
(* The consumer                                                                  *)

\* getFile: the bundle of the timestamp asked for, or else the latest.
Requested == inv # None /\ bundles[inv.stamp] # None
Served == IF Requested THEN inv.stamp ELSE Latest(bundles)

\* There is a bundle, and it is not the answer that nothing has changed.
Answered == bundles # Nothing /\ (Requested => inv.stamp # Latest(bundles))

\* The index is extracted into the consumer's directory, where the latest counts.
TakeIndex ==
    /\ Answered
    /\ LET i == bundles[Served].inventory IN
        /\ i # None
        /\ inv # None => i.stamp >= inv.stamp
        /\ inv' = i
    /\ UNCHANGED <<supplierVars, content, packageVars, pc, astray, boundVars>>

\* The differences are applied to the inventory, whether or not they were made for it.
\* Without one applyDifferences throws, and an inventory that is not newer changes nothing.
TakeDifferences ==
    /\ Answered
    /\ inv # None
    /\ LET D == bundles[Served].diffs IN
        /\ D # {}
        /\ Newest(D).stamp > inv.stamp
        /\ inv' = Merged(inv, D)
    /\ astray' = (astray \/ ~Requested)
    /\ UNCHANGED <<supplierVars, content, packageVars, pc, boundVars>>

Retrieve == TakeIndex \/ TakeDifferences

\* The process stops while it extracts the index, or the answer was cut short, which
\* nobody notices as its size was not known: what is there cannot be read.
TakeIndexCutShort ==
    /\ Answered
    /\ LET i == bundles[Served].inventory IN
        /\ i # None
        /\ inv # None => i.stamp >= inv.stamp
    /\ inv' = None
    /\ Fault
    /\ UNCHANGED <<supplierVars, content, packageVars, pc, astray, edits>>

-----------------------------------------------------------------------------
Faults == ScanCutShort \/ PackageFails \/ PackageTorn \/ Stop \/ LoseIndex
          \/ TakeIndexCutShort

Next == Supply \/ Retrieve \/ Faults \/ Edit

\* The supplier's task and the consumer's run are scheduled again and again, and a
\* retrieval that fails is tried again.
Spec == Init /\ [][Next]_vars /\ WF_vars(Supply) /\ WF_vars(Retrieve)
=============================================================================
