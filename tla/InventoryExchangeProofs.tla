----------------------- MODULE InventoryExchangeProofs -----------------------
(* Proofs about InventoryExchange, for any entries, versions and bounds.          *)
EXTENDS InventoryExchangeProperties, FiniteSetTheorems, WellFoundedInduction, TLAPS

LEMMA StampsAreFinite == Stamps \subseteq Nat /\ IsFiniteSet(Stamps)
<1>1. 1 \in Int /\ MaxClock \in Int
  BY ConstantsAssumption
<1> QED
  BY <1>1, FS_Interval DEF Stamps

\* A set of timestamps has a latest: one that the fewest come after.
LEMMA LatestExists ==
  ASSUME NEW T \in SUBSET Stamps, T # {}
  PROVE  \E s \in T : \A t \in T : t <= s
<1> DEFINE After(s) == {t \in T : t > s}
           Afters == {After(s) : s \in T}
           Order == StrictSubsetOrdering(Stamps)
<1>1. IsWellFoundedOn(Order, FiniteSubsetsOf(Stamps))
  BY FS_StrictSubsetOrderingWellFounded
<1>2. Afters \subseteq FiniteSubsetsOf(Stamps) /\ Afters # {}
  <2>1. FiniteSubsetsOf(Stamps) = SUBSET Stamps
    BY StampsAreFinite, FS_FiniteSubsetsOfFinite
  <2>2. \A s \in T : After(s) \in SUBSET Stamps
    OBVIOUS
  <2>3. \A s \in T : After(s) \in FiniteSubsetsOf(Stamps)
    BY <2>1, <2>2
  <2> HIDE DEF After
  <2> QED
    BY <2>3
<1>3. PICK A \in Afters : \A B \in Afters : ~ (<<B, A>> \in Order)
  <2> HIDE DEF Order, Afters
  <2> QED BY <1>1, <1>2, WFMin
<1>4. PICK s \in T : A = After(s)
  OBVIOUS
<1>5. ASSUME NEW t \in T, t > s PROVE FALSE
  <2>1. /\ t \in After(s) /\ t \notin After(t)
        /\ \A u \in T : u > t => u > s
    BY <1>5, StampsAreFinite
  <2>2. <<After(t), A>> \in Order
    BY <1>4, <2>1 DEF StrictSubsetOrdering
  <2> QED
    BY <1>3, <2>2
<1> QED
  BY <1>5, StampsAreFinite

\* The directory has a latest file, if it has any.
LEMMA LatestNamed ==
  ASSUME NEW S, NEW files \in [Stamps -> S], files # Nothing
  PROVE  /\ Latest(files) \in Named(files)
         /\ \A s \in Named(files) : s <= Latest(files)
<1>1. Named(files) \subseteq Stamps /\ Named(files) # {}
  BY DEF Named, Nothing
<1> QED
  BY <1>1, LatestExists DEF Latest

\* Of some differences one is the newest.
LEMMA NewestIn ==
  ASSUME NEW D \in SUBSET Differences, D # {}
  PROVE  /\ Newest(D) \in D
         /\ \A d \in D : d.stamp <= Newest(D).stamp
<1> DEFINE T == {d.stamp : d \in D}
<1>1. T \subseteq Stamps /\ T # {}
  BY DEF Differences
<1>2. PICK s \in T : \A t \in T : t <= s
  <2> HIDE DEF T
  <2> QED BY <1>1, LatestExists
<1>3. \E d \in D : \A e \in D : e.stamp <= d.stamp
  BY <1>2
<1> QED
  BY <1>3 DEF Newest

\* One that is newer than the others is the newest.
LEMMA NewestAdded ==
  ASSUME NEW D \in SUBSET Differences, NEW d \in Differences,
         \A e \in D : e.stamp < d.stamp
  PROVE  Newest(D \cup {d}) = d
<1>1. /\ Newest(D \cup {d}) \in D \cup {d}
      /\ d.stamp <= Newest(D \cup {d}).stamp
  BY NewestIn
<1>2. \A e \in D : e.stamp \in Nat /\ d.stamp \in Nat
  BY StampsAreFinite DEF Differences
<1> QED
  BY <1>1, <1>2

\* What differences are applied to is of the kind it was.
LEMMA MergeType ==
  ASSUME NEW c \in Contents, NEW D \in SUBSET Differences
  PROVE  Merge(c, D) \in Contents
<1>1. ASSUME NEW e \in Entries, NEW T \in SUBSET D, T # {}, \A d \in T : Takes(d, e)
      PROVE  Newest(T).changes[e] \in Versions \cup {None}
  <2>1. Newest(T) \in T
    BY <1>1, NewestIn
  <2> QED
    BY <1>1, <2>1 DEF Differences, Takes
<1>2. ASSUME NEW e \in Entries
      PROVE  (LET T == {d \in D : Takes(d, e)}
              IN  IF T = {} THEN c[e] ELSE Newest(T).changes[e]) \in Versions \cup {None}
  BY <1>1 DEF Contents
<1> QED
  BY <1>2 DEF Merge, Contents

\* And so is an inventory.
LEMMA MergedType ==
  ASSUME NEW i \in Inventories, NEW D \in SUBSET Differences, D # {}
  PROVE  Merged(i, D) \in Inventories
<1>1. Merge(i.content, D) \in Contents
  BY MergeType DEF Inventories
<1>2. Newest(D).stamp \in Stamps
  BY NewestIn DEF Differences
<1> QED
  BY <1>1, <1>2 DEF Merged, Inventories

\* To apply differences and then one that is newer is to apply all of them at once.
LEMMA MergeAdded ==
  ASSUME NEW c \in Contents, NEW D \in SUBSET Differences, NEW d \in Differences,
         \A e \in D : e.stamp < d.stamp
  PROVE  Merge(c, D \cup {d}) = Merge(Merge(c, D), {d})
<1> DEFINE Of(E, e) == {x \in E : Takes(x, e)}
<1>1. ASSUME NEW e \in Entries, Takes(d, e)
      PROVE  Merge(c, D \cup {d})[e] = Merge(Merge(c, D), {d})[e]
  <2>1. Of(D \cup {d}, e) = Of(D, e) \cup {d} /\ Of({d}, e) = {} \cup {d}
    BY <1>1
  <2>2. Newest(Of(D, e) \cup {d}) = d
    BY NewestAdded
  <2>3. Newest({} \cup {d}) = d
    BY NewestAdded
  <2>4. Merge(c, D \cup {d})[e] = d.changes[e]
    BY <2>1, <2>2 DEF Merge
  <2>5. Merge(Merge(c, D), {d})[e] = d.changes[e]
    BY <2>1, <2>3 DEF Merge
  <2> QED
    BY <2>4, <2>5
<1>2. ASSUME NEW e \in Entries, ~ Takes(d, e)
      PROVE  Merge(c, D \cup {d})[e] = Merge(Merge(c, D), {d})[e]
  <2>1. Of(D \cup {d}, e) = Of(D, e) /\ Of({d}, e) = {}
    BY <1>2
  <2>2. Merge(c, D \cup {d})[e] = Merge(c, D)[e]
    BY <2>1 DEF Merge
  <2>3. Merge(Merge(c, D), {d})[e] = Merge(c, D)[e]
    BY <2>1 DEF Merge
  <2> QED
    BY <2>2, <2>3
<1> QED
  BY <1>1, <1>2 DEF Merge

\* The same, of an inventory.
LEMMA MergedAdded ==
  ASSUME NEW i \in Inventories, NEW D \in SUBSET Differences, NEW d \in Differences,
         \A e \in D : e.stamp < d.stamp, D # {}
  PROVE  Merged(i, D \cup {d}) = Merged(Merged(i, D), {d})
<1>1. Merge(i.content, D \cup {d}) = Merge(Merge(i.content, D), {d})
  BY MergeAdded DEF Inventories
<1>2. Newest(D \cup {d}) = d /\ Newest({} \cup {d}) = d
  BY NewestAdded
<1> QED
  BY <1>1, <1>2 DEF Merged

-----------------------------------------------------------------------------
(* The types                                                                     *)

\* A run that creates an index has a timestamp for it; one that applies differences has
\* them.
TypeInv ==
  /\ TypeOK
  /\ pc = "create" => clock < MaxClock
  /\ pc = "apply" => diffs[index.stamp] # None

\* A difference is one.
LEMMA DifferenceType ==
  ASSUME NEW old \in Contents, NEW new \in Contents, NEW t \in Stamps
  PROVE  /\ Difference(old, new, t) \in Differences
         /\ Difference(old, new, t).stamp = t
         /\ \A E \in SUBSET Entries : /\ Part(Difference(old, new, t), E) \in Differences
                                      /\ Part(Difference(old, new, t), E).stamp = t
<1>1. \A e \in Entries : new[e] \in Versions \cup {None, Same}
  BY DEF Contents
<1>2. Difference(old, new, t) \in Differences /\ Difference(old, new, t).stamp = t
  BY <1>1, ConstantsAssumption DEF Difference, Differences
<1>3. ASSUME NEW E \in SUBSET Entries, NEW d \in Differences
      PROVE  Part(d, E) \in Differences /\ Part(d, E).stamp = d.stamp
  BY <1>3 DEF Part, Differences
<1> QED
  BY <1>2, <1>3

\* So is what a file of the supplier's directory may become.
LEMMA WantedType ==
  ASSUME TypeOK, index # None
  PROVE  /\ Wanted \in [Stamps -> Bundles \cup {None}]
         /\ Broken \in Bundles
         /\ Nothing \in [Stamps -> Bundles \cup {None}]
         /\ Nothing \in [Stamps -> Differences \cup {None}]
<1>1. \A s \in Stamps : DiffBundle(s) \in Bundles
  BY DEF DiffBundle, Bundles, Named, TypeOK
<1>2. IndexBundle \in Bundles
  BY DEF IndexBundle, Bundles, TypeOK
<1>3. Broken \in Bundles
  BY DEF Broken, Bundles
<1> QED
  BY <1>1, <1>2, <1>3 DEF Wanted, Nothing

\* What a consumer is served is a bundle.
LEMMA ServedType ==
  ASSUME TypeOK, Answered
  PROVE  Served \in Stamps /\ bundles[Served] \in Bundles
<1>1. Latest(bundles) \in Named(bundles)
  BY LatestNamed DEF TypeOK, Answered
<1>2. Requested => inv.stamp \in Stamps /\ bundles[inv.stamp] # None
  BY DEF TypeOK, Requested, Inventories
<1> QED
  BY <1>1, <1>2 DEF Served, Named, TypeOK

\* Every step keeps the variables in their types.
LEMMA TypeStep == TypeInv /\ [Next]_vars => TypeInv'
<1> SUFFICES ASSUME TypeInv, [Next]_vars PROVE TypeInv'
  OBVIOUS
<1> USE ConstantsAssumption DEF TypeInv, TypeOK, supplierVars, packageVars, boundVars
<1>1. clock < MaxClock => clock + 1 \in Stamps /\ clock + 1 \in 0..MaxClock
  BY DEF Stamps
<1>2. /\ Nothing \in [Stamps -> Bundles \cup {None}]
      /\ Nothing \in [Stamps -> Differences \cup {None}]
  BY DEF Nothing
<1>3. Fault => faults' \in 0..MaxFaults
  BY DEF Fault
<1>4. index # None => index.stamp \in Stamps /\ index.content \in Contents
  BY DEF Inventories
<1>5. CASE Cleanup
  BY <1>2, <1>5 DEF Cleanup, Goto, Steps
<1>6. CASE Create
  <2>1. index' \in Inventories
    BY <1>1, <1>6 DEF Create, Goto, Inventories
  <2>2. index' # None
    BY <2>1, NoneAssumption
  <2> QED
    BY <1>1, <1>6, <2>1, <2>2 DEF Create, Goto, Steps
<1>7. CASE Scan
  <2>1. Difference(index.content, content, clock + 1) \in Differences
    BY <1>1, <1>4, <1>7, DifferenceType DEF Scan
  <2> QED
    BY <1>1, <1>4, <1>7, <2>1, NoneAssumption DEF Scan, Goto, Steps
<1>8. CASE ScanUnchanged
  BY <1>8 DEF ScanUnchanged, Goto, Steps
<1>9. CASE ApplyDifferences
  <2>1. diffs[index.stamp] \in Differences /\ index # None
    BY <1>4, <1>9 DEF ApplyDifferences, Goto
  <2>2. index' \in Inventories
    BY <1>9, <2>1, MergedType DEF ApplyDifferences
  <2>3. index' # None
    BY <2>2, NoneAssumption
  <2> QED
    BY <1>9, <2>2, <2>3 DEF ApplyDifferences, Goto, Steps
<1>10. CASE Prune
  BY <1>10 DEF Prune, Steps
<1>11. CASE Package
  <2>1. Wanted \in [Stamps -> Bundles \cup {None}]
    BY <1>11, WantedType DEF Package
  <2> QED
    BY <1>11, <2>1 DEF Package, Steps
<1>12. CASE Delete
  BY <1>12 DEF Delete, Steps
<1>13. CASE Rename
  BY <1>13 DEF Rename, Steps, Named
<1>14. CASE TakeIndex
  BY <1>14, ServedType DEF TakeIndex, Bundles
<1>15. CASE TakeDifferences
  <2>1. bundles[Served].diffs \in SUBSET Differences
    BY <1>15, ServedType DEF TakeDifferences, Bundles
  <2>2. Merged(inv, bundles[Served].diffs) \in Inventories
    BY <1>15, <2>1, MergedType DEF TakeDifferences
  <2> QED
    BY <1>15, <2>2 DEF TakeDifferences
<1>16. CASE ScanCutShort
  <2>1. PICK E \in SUBSET {e \in Entries : content[e] # index.content[e]} \ {{}} :
          diffs' = [diffs EXCEPT
            ![index.stamp] = Part(Difference(index.content, content, clock + 1), E)]
    BY <1>16 DEF ScanCutShort
  <2>2. E \in SUBSET Entries
    BY <2>1
  <2>3. Part(Difference(index.content, content, clock + 1), E) \in Differences
    BY <1>1, <1>4, <1>16, <2>2, DifferenceType DEF ScanCutShort
  <2> QED
    BY <1>1, <1>3, <1>16, <2>1, <2>3 DEF ScanCutShort
<1>17. CASE PackageFails
  BY <1>2, <1>3, <1>17 DEF PackageFails, Goto, Steps, Unpublished
<1>18. CASE PackageTorn
  <2>1. Wanted \in [Stamps -> Bundles \cup {None}] /\ Broken \in Bundles
    BY <1>18, WantedType DEF PackageTorn, Goto
  <2>2. temps' \in [Stamps -> Bundles \cup {None}]
    BY <1>18, <2>1 DEF PackageTorn
  <2> QED
    BY <1>3, <1>18, <2>2 DEF PackageTorn, Goto, Steps, Unpublished
<1>19. CASE Stop
  BY <1>3, <1>19 DEF Stop, Steps, Unpublished
<1>20. CASE LoseIndex
  BY <1>3, <1>20 DEF LoseIndex
<1>21. CASE TakeIndexCutShort
  BY <1>3, <1>21 DEF TakeIndexCutShort
<1>22. CASE Edit
  <2>1. edits' \in 0..MaxEdits
    BY <1>22 DEF Edit
  <2>2. content' \in Contents
    BY <1>22 DEF Edit, Contents
  <2> QED
    BY <1>22, <2>1, <2>2 DEF Edit
<1>23. CASE UNCHANGED vars
  BY <1>23 DEF vars
<1> QED
  BY <1>5, <1>6, <1>7, <1>8, <1>9, <1>10, <1>11, <1>12, <1>13, <1>14, <1>15, <1>16, <1>17,
     <1>18, <1>19, <1>20, <1>21, <1>22, <1>23
     DEF Next, Supply, Retrieve, Faults

\* They have them at the start.
LEMMA InitTypes == Init => TypeInv
<1>1. 0 \in 0..MaxClock /\ 0 \in 0..MaxEdits /\ 0 \in 0..MaxFaults
  BY ConstantsAssumption
<1>2. /\ Nothing \in [Stamps -> Bundles \cup {None}]
      /\ Nothing \in [Stamps -> Differences \cup {None}]
  BY DEF Nothing
<1> QED
  BY <1>1, <1>2 DEF Init, TypeInv, TypeOK, Steps

\* The variables keep their types (InventoryCreationTask, InventoryRetriever).
THEOREM TypeInvariance == Spec => []TypeOK
<1>1. TypeInv => TypeOK
  BY DEF TypeInv
<1> QED
  BY <1>1, InitTypes, TypeStep, PTL DEF Spec

-----------------------------------------------------------------------------
(* The invariant of the files                                                    *)

\* The differences lead on, from one to the next, up to the index.
Links ==
  /\ pc = "create" => index = None /\ diffs = Nothing
  /\ \A s \in Named(diffs) : s < diffs[s].stamp /\ diffs[s].stamp <= clock
  /\ index # None => /\ index.stamp <= clock
                     /\ \A s \in Named(diffs) : s <= index.stamp
  /\ Contiguous

\* The index is the latest inventory there has been, and each had a timestamp of its own.
Past ==
  /\ \A h \in history : /\ h.stamp <= clock
                        /\ index # None => h.stamp <= index.stamp
  /\ \A g, h \in history : g.stamp = h.stamp => g = h
  /\ index # None => index \in history

\* The differences from s on that were applied.
Path(s) == {diffs[u] : u \in {v \in Named(diffs) : s <= v /\ v < index.stamp}}

\* With them an earlier inventory becomes the index.
Chained ==
  index # None =>
    \A s \in Named(diffs), h \in history :
      s < index.stamp /\ h.stamp = s => Merged(h, Path(s)) = index

\* A bundle makes, of the inventory of its name, one there has been.
Leads(s, b) ==
  b # None =>
    /\ b.inventory # None => b.inventory \in history
    /\ b.diffs # {} => \A h \in history : h.stamp = s => Merged(h, b.diffs) \in history

Packaged ==
  /\ pc = "create" => bundles = Nothing /\ temps = Nothing
  /\ index # None => \A s \in Named(bundles) \cup Named(temps) : s <= index.stamp
  /\ ~ astray => \A s \in Stamps : Leads(s, bundles[s]) /\ Leads(s, temps[s])

FilesInv == TypeInv /\ Links /\ Past /\ Chained /\ Packaged /\ Faithful

-----------------------------------------------------------------------------
(* The steps                                                                     *)

\* What most steps leave alone.
LEMMA Kinds ==
  ASSUME [Next]_vars
  PROVE  \/ Cleanup
         \/ Create
         \/ Scan
         \/ ScanCutShort
         \/ ApplyDifferences
         \/ Prune
         \/ LoseIndex
         \/ /\ UNCHANGED supplierVars
            /\ pc' = pc \/ pc' \notin {"create", "apply"}
<1> USE DEF supplierVars
<1>1. CASE ScanUnchanged \/ Package \/ Delete \/ Rename
  BY <1>1 DEF ScanUnchanged, Package, Delete, Rename, Goto
<1>2. CASE Retrieve
  BY <1>2 DEF Retrieve, TakeIndex, TakeDifferences
<1>3. CASE PackageFails \/ PackageTorn \/ Stop \/ TakeIndexCutShort
  BY <1>3 DEF PackageFails, PackageTorn, Stop, TakeIndexCutShort, Goto
<1>4. CASE Edit \/ UNCHANGED vars
  BY <1>4 DEF Edit, vars
<1> QED
  BY <1>1, <1>2, <1>3, <1>4 DEF Next, Supply, Faults

\* A comparison, whether or not it comes to its end, leaves what it found for the index.
LEMMA Found ==
  ASSUME TypeInv, Scan \/ ScanCutShort
  PROVE  /\ index # None /\ index \in Inventories /\ UNCHANGED <<index, history>>
         /\ clock' = clock + 1 /\ clock < MaxClock
         /\ pc' # "create"
         /\ \E d \in Differences : /\ d.stamp = clock + 1
                                   /\ diffs' = [diffs EXCEPT ![index.stamp] = d]
<1>1. clock < MaxClock => clock + 1 \in Stamps
  BY ConstantsAssumption DEF TypeInv, TypeOK, Stamps
<1>2. index # None => index \in Inventories /\ index.content \in Contents
  BY DEF TypeInv, TypeOK, Inventories
<1>3. content \in Contents
  BY DEF TypeInv, TypeOK
<1>4. CASE Scan
  BY <1>1, <1>2, <1>3, <1>4, DifferenceType DEF Scan, Goto
<1>5. CASE ScanCutShort
  <2>1. PICK E \in SUBSET {e \in Entries : content[e] # index.content[e]} \ {{}} :
          diffs' = [diffs EXCEPT
            ![index.stamp] = Part(Difference(index.content, content, clock + 1), E)]
    BY <1>5 DEF ScanCutShort
  <2>2. E \in SUBSET Entries
    BY <2>1
  <2> DEFINE d == Part(Difference(index.content, content, clock + 1), E)
  <2>3. d \in Differences /\ d.stamp = clock + 1
    BY <1>1, <1>2, <1>3, <1>5, <2>2, DifferenceType DEF ScanCutShort
  <2>4. /\ index # None /\ UNCHANGED <<index, history>> /\ pc' # "create"
        /\ clock' = clock + 1 /\ clock < MaxClock
    BY <1>5 DEF ScanCutShort
  <2> HIDE DEF d
  <2> QED
    BY <1>2, <2>1, <2>3, <2>4 DEF d
<1> QED
  BY <1>4, <1>5

\* What is pruned are the oldest.
LEMMA KeptAreLast ==
  ASSUME NEW s \in Named(diffs), NEW t \in Named(diffs), s <= t, Kept(s)
  PROVE  Kept(t)
<1> DEFINE From(u) == {v \in Named(diffs) : v >= u}
<1>1. From(s) \subseteq Stamps /\ Stamps \subseteq Nat /\ IsFiniteSet(Stamps)
  BY StampsAreFinite DEF Named
<1>2. From(t) \subseteq From(s)
  <2>1. s \in Nat /\ t \in Nat /\ \A v \in Named(diffs) : v \in Nat
    BY StampsAreFinite DEF Named
  <2>2. \A v \in Named(diffs) : v >= t => v >= s
    BY <2>1
  <2> QED
    BY <2>2
<1>3. IsFiniteSet(From(s))
  BY <1>1, FS_Subset
<1>4. Cardinality(From(t)) <= Cardinality(From(s)) /\ IsFiniteSet(From(t))
  BY <1>2, <1>3, FS_Subset
<1>5. Cardinality(From(t)) \in Nat /\ Cardinality(From(s)) \in Nat
  BY <1>3, <1>4, FS_CardinalityType
<1> QED
  BY <1>4, <1>5, ConstantsAssumption DEF Kept

\* Every step keeps the differences linked.
LEMMA LinksStep == TypeInv /\ Links /\ [Next]_vars => Links'
<1> SUFFICES ASSUME TypeInv, Links, [Next]_vars PROVE Links'
  OBVIOUS
<1>1. /\ Named(diffs) \subseteq Stamps
      /\ \A s \in Named(diffs) : s \in Nat /\ diffs[s].stamp \in Nat
      /\ index # None => index.stamp \in Nat /\ index.stamp \in Stamps
      /\ clock \in Nat
  <2>1. \A s \in Named(diffs) : s \in Stamps /\ diffs[s] \in Differences
    BY DEF TypeInv, TypeOK, Named
  <2>2. \A d \in Differences : d.stamp \in Stamps
    BY DEF Differences
  <2>3. index # None => index.stamp \in Stamps
    BY DEF TypeInv, TypeOK, Inventories
  <2>4. clock \in Nat
    BY ConstantsAssumption DEF TypeInv, TypeOK
  <2> QED
    BY <2>1, <2>2, <2>3, <2>4, StampsAreFinite
<1>2. CASE Cleanup
  BY <1>2 DEF Cleanup, Goto, Links, Contiguous, Named, Nothing
<1>3. CASE Create
  <2>1. Named(diffs') = {}
    BY <1>3 DEF Create, Goto, Links, Named, Nothing
  <2>2. index'.stamp = clock' /\ pc' # "create" /\ clock' \in Nat
    BY <1>1, <1>3 DEF Create, Goto
  <2> QED
    BY <2>1, <2>2 DEF Links, Contiguous
<1>4. CASE Scan \/ ScanCutShort
  <2>1. PICK d \in Differences : /\ d.stamp = clock + 1
                                 /\ diffs' = [diffs EXCEPT ![index.stamp] = d]
    BY <1>4, Found
  <2>2. /\ index # None /\ UNCHANGED index /\ clock' = clock + 1
        /\ pc' # "create"
    BY <1>4, Found
  <2>3. /\ diffs'[index.stamp] = d /\ d # None
        /\ \A s \in Stamps \ {index.stamp} : diffs'[s] = diffs[s]
    BY <1>1, <2>1, <2>2, NoneAssumption DEF TypeInv, TypeOK
  <2>4. Named(diffs') = Named(diffs) \cup {index.stamp}
    BY <1>1, <2>2, <2>3 DEF Named
  <2>5. \A s \in Named(diffs') : s < diffs'[s].stamp /\ diffs'[s].stamp <= clock'
    <3>1. index.stamp < d.stamp /\ d.stamp <= clock'
      BY <1>1, <2>1, <2>2 DEF Links
    <3>2. \A s \in Named(diffs) : s < diffs[s].stamp /\ diffs[s].stamp <= clock'
      BY <1>1, <2>2 DEF Links
    <3> QED
      BY <1>1, <2>3, <2>4, <3>1, <3>2
  <2>6. index.stamp <= clock' /\ \A s \in Named(diffs') : s <= index.stamp
    BY <1>1, <2>2, <2>4 DEF Links
  <2>7. Contiguous'
    <3> SUFFICES ASSUME NEW s \in Named(diffs') \ {index.stamp}
                 PROVE  /\ s < diffs'[s].stamp
                        /\ diffs'[s].stamp \in Named(diffs') \cup {index.stamp}
                        /\ \A u \in Named(diffs') : u <= s \/ u >= diffs'[s].stamp
      BY <2>2 DEF Contiguous
    <3>1. s \in Named(diffs) \ {index.stamp} /\ diffs'[s] = diffs[s]
      BY <1>1, <2>3, <2>4
    <3>2. /\ s < diffs[s].stamp
          /\ diffs[s].stamp \in Named(diffs) \cup {index.stamp}
          /\ \A u \in Named(diffs) : u <= s \/ u >= diffs[s].stamp
      BY <2>2, <3>1 DEF Links, Contiguous
    <3>3. diffs[s].stamp <= index.stamp
      BY <1>1, <2>2, <3>2 DEF Links
    <3> QED
      BY <1>1, <2>4, <3>1, <3>2, <3>3
  <2> QED
    BY <2>2, <2>5, <2>6, <2>7 DEF Links
<1>5. CASE ApplyDifferences
  <2> DEFINE d == diffs[index.stamp]
  <2>1. index # None /\ d \in Differences /\ index.stamp \in Named(diffs)
    BY <1>1, <1>5 DEF ApplyDifferences, Goto, TypeInv, TypeOK, Steps, Named
  <2>2. index'.stamp = d.stamp
    <3>1. Newest({} \cup {d}) = d
      BY <2>1, NewestAdded
    <3> QED
      BY <1>5, <3>1 DEF ApplyDifferences, Merged
  <2>3. UNCHANGED <<diffs, clock>> /\ pc' # "create"
    BY <1>5 DEF ApplyDifferences, Goto
  <2>4. index.stamp < d.stamp /\ d.stamp <= clock
    BY <2>1 DEF Links
  <2>5. \A s \in Named(diffs) : s <= index.stamp /\ s < d.stamp /\ s <= d.stamp
    BY <1>1, <2>1, <2>4 DEF Links
  <2>6. Contiguous'
    <3> SUFFICES ASSUME NEW s \in Named(diffs)
                 PROVE  /\ s < diffs[s].stamp
                        /\ diffs[s].stamp \in Named(diffs) \cup {d.stamp}
                        /\ \A u \in Named(diffs) : u <= s \/ u >= diffs[s].stamp
      BY <2>2, <2>3 DEF Contiguous
    <3>1. CASE s = index.stamp
      BY <2>1, <2>4, <2>5, <3>1
    <3>2. CASE s # index.stamp
      BY <2>1, <3>2 DEF Links, Contiguous
    <3> QED
      BY <3>1, <3>2
  <2> QED
    BY <2>2, <2>3, <2>4, <2>5, <2>6 DEF Links
<1>6. CASE Prune
  <2>1. /\ index # None /\ UNCHANGED <<index, clock>> /\ pc' # "create"
        /\ diffs' = [s \in Stamps |-> IF Kept(s) THEN diffs[s] ELSE None]
    BY <1>6 DEF Prune, TypeInv, TypeOK
  <2>2. /\ Named(diffs') = {s \in Named(diffs) : Kept(s)}
        /\ \A s \in Named(diffs') : diffs'[s] = diffs[s]
    BY <2>1 DEF Named
  <2>3. Contiguous'
    <3> SUFFICES ASSUME NEW s \in Named(diffs') \ {index.stamp}
                 PROVE  /\ s < diffs[s].stamp
                        /\ diffs[s].stamp \in Named(diffs') \cup {index.stamp}
                        /\ \A u \in Named(diffs') : u <= s \/ u >= diffs[s].stamp
      BY <2>1, <2>2 DEF Contiguous
    <3>1. s \in Named(diffs) /\ Kept(s)
      BY <2>2
    <3>2. /\ s < diffs[s].stamp
          /\ diffs[s].stamp \in Named(diffs) \cup {index.stamp}
          /\ \A u \in Named(diffs) : u <= s \/ u >= diffs[s].stamp
      BY <2>1, <3>1 DEF Links, Contiguous
    <3>3. diffs[s].stamp \in Named(diffs) => Kept(diffs[s].stamp)
      BY <1>1, <3>1, <3>2, KeptAreLast
    <3> QED
      BY <2>2, <3>2, <3>3
  <2> QED
    BY <2>1, <2>2, <2>3 DEF Links
<1>7. CASE LoseIndex
  BY <1>7 DEF LoseIndex, Links, Contiguous
<1>8. CASE UNCHANGED supplierVars /\ (pc' = pc \/ pc' \notin {"create", "apply"})
  BY <1>8 DEF supplierVars, Links, Contiguous
<1> QED
  BY <1>2, <1>3, <1>4, <1>5, <1>6, <1>7, <1>8, Kinds

\* Whatever stops a run of the supplier's task, the differences it leaves behind lead from
\* one to the next and to the index (InventoryDifferencePruner).
THEOREM LinksStay == Spec => []Contiguous
<1>1. Init => TypeInv /\ Links
  <2>1. Init => TypeInv
    BY InitTypes
  <2> QED
    BY <2>1 DEF Init, Links, Contiguous, Named, Nothing
<1>2. TypeInv /\ Links /\ [Next]_vars => (TypeInv /\ Links)'
  BY TypeStep, LinksStep
<1>3. TypeInv /\ Links => Contiguous
  BY DEF Links
<1> QED
  BY <1>1, <1>2, <1>3, PTL DEF Spec

-----------------------------------------------------------------------------
(* What a consumer makes of the bundles                                          *)

LEMMA StampTypes ==
  ASSUME TypeInv
  PROVE  /\ Stamps \subseteq Nat
         /\ \A s \in Named(diffs) : s \in Stamps /\ diffs[s] \in Differences
         /\ \A d \in Differences : d.stamp \in Stamps
         /\ \A i \in Inventories : i.stamp \in Stamps
         /\ index # None => index \in Inventories
         /\ history \subseteq Inventories
         /\ clock \in Nat
  BY StampsAreFinite, ConstantsAssumption
     DEF TypeInv, TypeOK, Named, Differences, Inventories

\* applyDifferences makes an index that is newer than all there were.
LEMMA Applied ==
  ASSUME TypeInv, Links, ApplyDifferences
  PROVE  /\ index # None /\ index' # None
         /\ index.stamp \in Named(diffs)
         /\ index' = Merged(index, {diffs[index.stamp]})
         /\ index'.stamp = diffs[index.stamp].stamp
         /\ index.stamp < index'.stamp /\ index'.stamp <= clock
         /\ history' = history \cup {index'}
         /\ UNCHANGED <<clock, diffs, bundles, temps, astray, inv>>
         /\ pc' # "create"
<1>1. index # None /\ index.stamp \in Named(diffs) /\ diffs[index.stamp] \in Differences
  BY StampTypes
     DEF ApplyDifferences, Goto, TypeInv, TypeOK, Named, Inventories
<1>2. Newest({} \cup {diffs[index.stamp]}) = diffs[index.stamp]
  BY <1>1, NewestAdded
<1>3. index' = Merged(index, {diffs[index.stamp]})
  BY DEF ApplyDifferences
<1>4. index'.stamp = diffs[index.stamp].stamp
  BY <1>2, <1>3 DEF Merged
<1>5. index' # None
  BY <1>1, <1>3, MergedType, NoneAssumption DEF TypeInv, TypeOK
<1> QED
  BY <1>1, <1>3, <1>4, <1>5 DEF ApplyDifferences, Goto, Links, packageVars

\* Every step gives a new index a new timestamp.
LEMMA PastStep == TypeInv /\ Links /\ Past /\ [Next]_vars => Past'
<1> SUFFICES ASSUME TypeInv, Links, Past, [Next]_vars PROVE Past'
  OBVIOUS
<1>1. /\ index # None => index.stamp \in Nat
      /\ \A h \in history : h.stamp \in Nat
      /\ clock \in Nat
  BY StampTypes
<1>2. CASE Cleanup
  BY <1>2 DEF Cleanup, Past
<1>3. CASE Create
  <2>1. /\ index' = [stamp |-> clock + 1, content |-> content]
        /\ history' = history \cup {index'} /\ clock' = clock + 1
    BY <1>3 DEF Create
  <2>2. index'.stamp = clock + 1
    BY <2>1
  <2>3. \A h \in history : h.stamp < clock + 1
    BY <1>1 DEF Past
  <2> QED
    BY <1>1, <2>1, <2>2, <2>3 DEF Past
<1>4. CASE Scan \/ ScanCutShort
  <2>1. UNCHANGED <<index, history>> /\ clock' = clock + 1
    BY <1>4, Found
  <2> QED
    BY <1>1, <2>1 DEF Past
<1>5. CASE ApplyDifferences
  <2>1. /\ index # None /\ index.stamp < index'.stamp /\ index'.stamp <= clock
        /\ history' = history \cup {index'} /\ clock' = clock
    BY <1>5, Applied
  <2>2. index'.stamp \in Nat
    BY <1>5, StampTypes, Applied
  <2>3. \A h \in history : h.stamp < index'.stamp
    BY <1>1, <2>1, <2>2 DEF Past
  <2> QED
    BY <1>1, <2>1, <2>2, <2>3 DEF Past
<1>6. CASE Prune
  BY <1>6 DEF Prune, Past
<1>7. CASE LoseIndex
  BY <1>7 DEF LoseIndex, Past
<1>8. CASE UNCHANGED supplierVars
  BY <1>8 DEF supplierVars, Past
<1> QED
  BY <1>2, <1>3, <1>4, <1>5, <1>6, <1>7, <1>8, Kinds

\* Every step keeps the differences true of the inventories they lead from.
LEMMA ChainedStep == TypeInv /\ Links /\ Past /\ Chained /\ [Next]_vars => Chained'
<1> SUFFICES ASSUME TypeInv, Links, Past, Chained, [Next]_vars PROVE Chained'
  OBVIOUS
<1>1. /\ \A v \in Named(diffs) : v \in Stamps /\ v \in Nat
      /\ \A v \in Stamps : v \in Nat
      /\ index # None => index.stamp \in Stamps
  BY StampTypes
<1>2. CASE Cleanup
  BY <1>2 DEF Cleanup, Chained
<1>3. CASE Create
  <2>1. Named(diffs') = {}
    BY <1>3 DEF Create, Goto, Links, Named, Nothing
  <2> QED
    BY <2>1 DEF Chained
<1>4. CASE Scan \/ ScanCutShort
  <2>1. PICK d \in Differences : diffs' = [diffs EXCEPT ![index.stamp] = d]
    BY <1>4, Found
  <2>2. UNCHANGED <<index, history>> /\ index # None
    BY <1>4, Found
  <2>3. \A v \in Stamps \ {index.stamp} : diffs'[v] = diffs[v]
    BY <2>1 DEF TypeInv, TypeOK
  <2>4. \A v \in Stamps \ {index.stamp} : v \in Named(diffs') <=> v \in Named(diffs)
    BY <2>3 DEF Named
  <2>5. \A v \in Stamps : v < index.stamp => v # index.stamp
    BY <1>1, <2>2
  <2>6. ASSUME NEW s \in Stamps PROVE Path(s)' = Path(s)
    <3> DEFINE On(files) == {v \in Named(files) : s <= v /\ v < index.stamp}
    <3>1. \A files : On(files) \subseteq Stamps \ {index.stamp}
      BY <2>5 DEF Named
    <3>2. On(diffs') = On(diffs)
      BY <2>4, <3>1
    <3>3. \A v \in On(diffs) : diffs'[v] = diffs[v]
      BY <2>3, <3>1
    <3>4. Path(s)' = {diffs'[v] : v \in On(diffs)}
      BY <2>2, <3>2 DEF Path
    <3> QED
      BY <3>3, <3>4 DEF Path
  <2>7. \A s \in Named(diffs') : s < index.stamp => s \in Stamps /\ s \in Named(diffs)
    BY <2>4, <2>5 DEF Named
  <2> QED
    BY <2>2, <2>6, <2>7 DEF Chained
<1>5. CASE ApplyDifferences
  <2> DEFINE d == diffs[index.stamp]
  <2>1. /\ index # None /\ index.stamp \in Named(diffs) /\ d \in Differences
        /\ index' = Merged(index, {d}) /\ index'.stamp = d.stamp
        /\ index.stamp < index'.stamp
        /\ history' = history \cup {index'} /\ diffs' = diffs
    BY <1>5, Applied, StampTypes
  <2>2. index.stamp \in Nat /\ index'.stamp \in Nat
    BY <2>1, StampTypes
  <2>3. SUFFICES ASSUME NEW s \in Named(diffs), NEW h \in history \cup {index'},
                        s < index'.stamp, h.stamp = s
                 PROVE  Merged(h, Path(s)') = index'
    BY <2>1 DEF Chained
  <2>4. h \in history /\ h \in Inventories
    BY <1>1, <2>2, <2>3, StampTypes
  <2>5. s <= index.stamp /\ \A v \in Named(diffs) : v <= index.stamp
    BY <2>1, <2>3 DEF Links
  <2>6. Path(s)' = {diffs[u] : u \in {v \in Named(diffs) : s <= v}}
    <3>1. {v \in Named(diffs) : s <= v /\ v < index'.stamp} = {v \in Named(diffs) : s <= v}
      BY <1>1, <2>1, <2>2, <2>5
    <3> QED
      BY <2>1, <3>1 DEF Path
  <2>7. Path(s)' = Path(s) \cup {d}
    <3>1. {v \in Named(diffs) : s <= v}
          = {v \in Named(diffs) : s <= v /\ v < index.stamp} \cup {index.stamp}
      BY <1>1, <2>1, <2>2, <2>5
    <3> QED
      BY <2>6, <3>1 DEF Path
  <2>8. CASE s = index.stamp
    <3>1. h = index
      BY <2>1, <2>3, <2>4, <2>8 DEF Past
    <3>2. \A v \in Named(diffs) : ~ (s <= v /\ v < index.stamp)
      BY <1>1, <2>2, <2>8
    <3>3. Path(s) = {}
      BY <3>2 DEF Path
    <3> QED
      BY <2>1, <2>7, <3>1, <3>3
  <2>9. CASE s # index.stamp
    <3>1. s < index.stamp
      BY <1>1, <2>2, <2>3, <2>5, <2>9
    <3>2. Merged(h, Path(s)) = index
      BY <2>1, <2>3, <2>4, <3>1 DEF Chained
    <3>3. Path(s) \subseteq Differences /\ Path(s) # {}
      <4>1. s <= s /\ \A v \in Named(diffs) : diffs[v] \in Differences
        BY <1>1, StampTypes
      <4> QED
        BY <3>1, <4>1 DEF Path
    <3>4. \A e \in Path(s) : e.stamp < d.stamp
      <4>1. SUFFICES ASSUME NEW u \in Named(diffs), u < index.stamp
                     PROVE  diffs[u].stamp < d.stamp
        BY DEF Path
      <4>2. diffs[u].stamp \in Named(diffs) \cup {index.stamp}
        BY <1>1, <2>1, <2>2, <4>1 DEF Links, Contiguous
      <4>3. diffs[u].stamp <= index.stamp
        BY <2>2, <2>5, <4>2
      <4>4. diffs[u].stamp \in Nat
        BY <1>1, <2>1, <4>2
      <4> QED
        BY <2>1, <2>2, <4>3, <4>4
    <3>5. Merged(h, Path(s) \cup {d}) = Merged(Merged(h, Path(s)), {d})
      BY <2>1, <2>4, <3>3, <3>4, MergedAdded
    <3> QED
      BY <2>1, <2>7, <3>2, <3>5
  <2> QED
    BY <2>8, <2>9
<1>6. CASE Prune
  <2>1. /\ index # None /\ UNCHANGED <<index, history>>
        /\ diffs' = [s \in Stamps |-> IF Kept(s) THEN diffs[s] ELSE None]
    BY <1>6 DEF Prune, TypeInv, TypeOK
  <2>2. /\ Named(diffs') = {s \in Named(diffs) : Kept(s)}
        /\ \A s \in Named(diffs') : diffs'[s] = diffs[s]
    BY <2>1 DEF Named
  <2>3. \A s \in Named(diffs'), v \in Named(diffs) : s <= v => v \in Named(diffs')
    BY <2>2, KeptAreLast
  <2>4. \A s \in Named(diffs') : {v \in Named(diffs') : s <= v /\ v < index.stamp}
                                 = {v \in Named(diffs) : s <= v /\ v < index.stamp}
    BY <2>2, <2>3
  <2>5. \A s \in Named(diffs') : Path(s)' = Path(s)
    <3> SUFFICES ASSUME NEW s \in Named(diffs') PROVE Path(s)' = Path(s)
      OBVIOUS
    <3>1. Path(s)' = {diffs'[u] : u \in {v \in Named(diffs) : s <= v /\ v < index.stamp}}
      BY <2>1, <2>4 DEF Path
    <3>2. \A u \in {v \in Named(diffs) : s <= v /\ v < index.stamp} : diffs'[u] = diffs[u]
      BY <2>2, <2>3
    <3> QED
      BY <3>1, <3>2 DEF Path
  <2> QED
    BY <2>1, <2>2, <2>5 DEF Chained
<1>7. CASE LoseIndex
  BY <1>7 DEF LoseIndex, Chained
<1>8. CASE UNCHANGED supplierVars
  BY <1>8 DEF supplierVars, Chained, Path
<1> QED
  BY <1>2, <1>3, <1>4, <1>5, <1>6, <1>7, <1>8, Kinds

\* Which steps make or remove bundles, and which give an index its place among those there
\* have been.
LEMMA BundleKinds ==
  ASSUME TypeInv, Links, [Next]_vars
  PROVE  \/ Cleanup
         \/ Create
         \/ ApplyDifferences
         \/ LoseIndex
         \/ /\ UNCHANGED <<index, history>> /\ (pc' = "create" => pc = "create")
            /\ astray => astray'
            /\ \/ Package
               \/ PackageFails
               \/ PackageTorn
               \/ Delete
               \/ Rename
               \/ UNCHANGED <<bundles, temps>>
<1> USE DEF supplierVars, packageVars
<1>1. CASE Scan \/ ScanUnchanged \/ Prune \/ Package \/ Delete \/ Rename
  BY <1>1 DEF Scan, ScanUnchanged, Prune, Package, Delete, Rename, Goto
<1>2. CASE Retrieve
  BY <1>2 DEF Retrieve, TakeIndex, TakeDifferences
<1>3. CASE ScanCutShort \/ PackageFails \/ PackageTorn \/ Stop \/ TakeIndexCutShort
  BY <1>3 DEF ScanCutShort, PackageFails, PackageTorn, Stop, TakeIndexCutShort, Goto
<1>4. CASE Edit \/ UNCHANGED vars
  BY <1>4 DEF Edit, vars
<1> QED
  BY <1>1, <1>2, <1>3, <1>4 DEF Next, Supply, Faults

\* Applied differences make good bundles.
LEMMA WantedLeads ==
  ASSUME TypeInv, Links, Past, Chained, index # None, diffs[index.stamp] = None,
         NEW s \in Stamps
  PROVE  Leads(s, Wanted[s])
<1>1. Wanted[s] = IF s \in Named(diffs) THEN DiffBundle(s)
                  ELSE IF s = index.stamp THEN IndexBundle
                  ELSE None
  BY DEF Wanted
<1>2. CASE s \in Named(diffs)
  <2>1. \A v \in Named(diffs) : v \in Nat /\ v <= index.stamp /\ v # index.stamp
    BY <1>2, StampTypes DEF Links, Named
  <2>2. index.stamp \in Nat /\ s < index.stamp
    BY <1>2, <2>1, StampTypes
  <2>3. {u \in Named(diffs) : u >= s} = {v \in Named(diffs) : s <= v /\ v < index.stamp}
    BY <1>2, <2>1, <2>2
  <2>4. DiffBundle(s) = [inventory |-> None, diffs |-> Path(s)]
    BY <2>3 DEF DiffBundle, Path
  <2>5. index \in history
    BY DEF Past
  <2>6. \A h \in history : h.stamp = s => Merged(h, Path(s)) = index
    BY <1>2, <2>2 DEF Chained
  <2> QED
    BY <1>1, <1>2, <2>4, <2>5, <2>6 DEF Leads
<1>3. CASE s \notin Named(diffs)
  BY <1>1, <1>3 DEF Leads, IndexBundle, Past
<1> QED
  BY <1>2, <1>3

\* A bundle stays good as long as no index takes its name.
LEMMA LeadsOn ==
  ASSUME TypeInv, NEW s \in Stamps, NEW b, NEW i \in Inventories, Leads(s, b),
         history' = history \cup {i}, b # None => i.stamp # s
  PROVE  Leads(s, b)'
  BY DEF Leads

\* Every step leaves good bundles.
LEMMA PackagedStep ==
  TypeInv /\ TypeInv' /\ Links /\ Past /\ Chained /\ Packaged /\ [Next]_vars => Packaged'
<1> SUFFICES ASSUME TypeInv, TypeInv', Links, Past, Chained, Packaged, [Next]_vars
             PROVE  Packaged'
  OBVIOUS
<1>1. Named(Nothing) = {} /\ \A s \in Stamps : Nothing[s] = None
  BY DEF Named, Nothing
<1>2. CASE Cleanup
  BY <1>1, <1>2 DEF Cleanup, Packaged, Leads
<1>3. CASE Create
  <2>1. bundles' = Nothing /\ temps' = Nothing /\ pc' # "create"
    BY <1>3 DEF Create, Goto, Packaged, packageVars
  <2> QED
    BY <1>1, <2>1 DEF Packaged, Leads
<1>4. CASE ApplyDifferences
  <2>1. /\ index # None /\ index' # None /\ index.stamp < index'.stamp
        /\ history' = history \cup {index'} /\ pc' # "create"
        /\ UNCHANGED <<bundles, temps, astray>>
    BY <1>4, Applied
  <2>2. index.stamp \in Nat /\ index'.stamp \in Nat /\ index' \in Inventories
    BY <2>1, StampTypes DEF TypeInv, TypeOK, Inventories
  <2>3. \A s \in Named(bundles) \cup Named(temps) : s \in Nat /\ s <= index.stamp
    BY <2>1, StampTypes DEF Packaged, Named
  <2>4. \A s \in Named(bundles) \cup Named(temps) : s <= index'.stamp /\ s # index'.stamp
    BY <2>1, <2>2, <2>3
  <2>5. ASSUME NEW s \in Stamps, ~ astray
        PROVE  Leads(s, bundles[s])' /\ Leads(s, temps[s])'
    <3>1. Leads(s, bundles[s]) /\ Leads(s, temps[s])
      BY <2>5 DEF Packaged
    <3>2. /\ bundles[s] # None => index'.stamp # s
          /\ temps[s] # None => index'.stamp # s
      BY <2>4 DEF Named
    <3>3. bundles'[s] = bundles[s] /\ temps'[s] = temps[s]
      BY <2>1
    <3> QED
      BY <2>1, <2>2, <3>1, <3>2, <3>3, LeadsOn DEF Leads
  <2> QED
    BY <2>1, <2>4, <2>5 DEF Packaged
<1>5. CASE LoseIndex
  BY <1>5 DEF LoseIndex, packageVars, Packaged, Leads
<1>6. CASE /\ UNCHANGED <<index, history>> /\ (pc' = "create" => pc = "create")
           /\ astray => astray'
           /\ \/ Package
              \/ PackageFails
              \/ PackageTorn
              \/ Delete
              \/ Rename
              \/ UNCHANGED <<bundles, temps>>
  <2>1. SUFFICES ASSUME NEW s \in Stamps
                 PROVE  /\ pc' = "create" => bundles'[s] = None /\ temps'[s] = None
                        /\ index # None /\ (bundles'[s] # None \/ temps'[s] # None)
                             => s <= index.stamp
                        /\ ~ astray' => Leads(s, bundles'[s]) /\ Leads(s, temps'[s])
    <3>1. /\ bundles' \in [Stamps -> Bundles \cup {None}]
          /\ temps' \in [Stamps -> Bundles \cup {None}]
      BY DEF TypeInv, TypeOK
    <3> QED
      BY <1>6, <3>1 DEF Packaged, Leads, Named, Nothing
  <2>2. /\ pc = "create" => bundles[s] = None /\ temps[s] = None
        /\ index # None /\ (bundles[s] # None \/ temps[s] # None) => s <= index.stamp
        /\ ~ astray => Leads(s, bundles[s]) /\ Leads(s, temps[s])
    BY DEF Packaged, Named, Nothing
  <2>3. Leads(s, None) /\ Leads(s, Broken)
    BY DEF Leads, Broken
  <2>4. /\ index # None /\ Wanted[s] # None => s <= index.stamp
        /\ index # None /\ diffs[index.stamp] = None => Leads(s, Wanted[s])
    <3>1. index # None => index.stamp \in Nat
      BY StampTypes
    <3> QED
      BY <3>1, WantedLeads DEF Wanted, Links
  <2>5. CASE Package
    <3>1. /\ index # None /\ pc' # "create" /\ bundles' = bundles
          /\ temps'[s] = IF Wanted[s] # None THEN Wanted[s] ELSE temps[s]
          /\ ~ astray' => diffs[index.stamp] = None /\ ~ astray
      BY <2>5 DEF Package, TypeInv, TypeOK
    <3> QED
      BY <2>2, <2>4, <3>1
  <2>6. CASE PackageFails
    BY <1>1, <2>2, <2>3, <2>6 DEF PackageFails, Goto
  <2>7. CASE PackageTorn
    <3>1. /\ index # None /\ pc' # "create" /\ bundles' = bundles
          /\ ~ astray' => diffs[index.stamp] = None /\ ~ astray
      BY <2>7 DEF PackageTorn, Goto, TypeInv, TypeOK
    <3>2. PICK t \in Named(Wanted) :
            temps' = [u \in Stamps |->
                IF u = t THEN Broken
                ELSE IF t # index.stamp /\ Wanted[u] # None /\ (u < t \/ u = index.stamp)
                THEN Wanted[u] ELSE temps[u]]
      BY <2>7 DEF PackageTorn
    <3>3. \/ Wanted[s] # None /\ temps'[s] = Broken
          \/ Wanted[s] # None /\ temps'[s] = Wanted[s]
          \/ temps'[s] = temps[s]
      BY <3>2 DEF Named
    <3> QED
      BY <2>2, <2>3, <2>4, <3>1, <3>3
  <2>8. CASE Delete
    <3>1. PICK t \in Named(bundles) : bundles' = [bundles EXCEPT ![t] = None]
      BY <2>8 DEF Delete
    <3>2. bundles'[s] = None \/ bundles'[s] = bundles[s]
      BY <3>1 DEF TypeInv, TypeOK
    <3>3. pc' # "create" /\ temps' = temps /\ astray' = astray
      BY <2>8 DEF Delete
    <3> QED
      BY <2>2, <2>3, <3>2, <3>3
  <2>9. CASE Rename
    <3>1. PICK t \in Named(temps) : /\ bundles' = [bundles EXCEPT ![t] = temps[t]]
                                    /\ temps' = [temps EXCEPT ![t] = None]
      BY <2>9 DEF Rename
    <3>2. /\ bundles'[s] = temps[s] \/ bundles'[s] = bundles[s]
          /\ temps'[s] = None \/ temps'[s] = temps[s]
      BY <3>1 DEF TypeInv, TypeOK
    <3>3. pc' # "create" /\ astray' = astray
      BY <2>9 DEF Rename
    <3> QED
      BY <2>2, <2>3, <3>2, <3>3
  <2>10. CASE UNCHANGED <<bundles, temps>>
    BY <1>6, <2>2, <2>10
  <2> QED
    BY <1>6, <2>5, <2>6, <2>7, <2>8, <2>9, <2>10
<1> QED
  BY <1>2, <1>3, <1>4, <1>5, <1>6, BundleKinds

\* Every step leaves the consumer with an inventory there has been.
LEMMA FaithfulStep ==
  TypeInv /\ Links /\ Packaged /\ Faithful /\ [Next]_vars => Faithful'
<1> SUFFICES ASSUME TypeInv, Links, Packaged, Faithful, [Next]_vars PROVE Faithful'
  OBVIOUS
<1>1. CASE TakeIndex
  <2>1. /\ bundles[Served].inventory # None /\ inv' = bundles[Served].inventory
        /\ UNCHANGED <<history, astray>> /\ Answered
    BY <1>1 DEF TakeIndex, supplierVars
  <2>2. Served \in Stamps /\ bundles[Served] # None
    BY <2>1, ServedType, NoneAssumption DEF TypeInv
  <2> QED
    BY <2>1, <2>2 DEF Packaged, Leads, Faithful
<1>2. CASE TakeDifferences
  <2>1. /\ bundles[Served].diffs # {} /\ inv' = Merged(inv, bundles[Served].diffs)
        /\ inv # None /\ UNCHANGED history /\ Answered
        /\ ~ astray' => ~ astray /\ Served = inv.stamp
    BY <1>2 DEF TakeDifferences, supplierVars, Served
  <2>2. Served \in Stamps /\ bundles[Served] # None
    BY <2>1, ServedType, NoneAssumption DEF TypeInv
  <2> QED
    BY <2>1, <2>2 DEF Packaged, Leads, Faithful
<1>3. ASSUME history \subseteq history', astray => astray', inv' = inv \/ inv' = None
      PROVE  Faithful'
  BY <1>3 DEF Faithful
<1> USE DEF supplierVars, packageVars
<1>4. CASE Cleanup \/ Create \/ Scan \/ ScanUnchanged \/ ApplyDifferences \/ Prune
           \/ Package \/ Delete \/ Rename
  BY <1>3, <1>4 DEF Cleanup, Create, Scan, ScanUnchanged, ApplyDifferences, Prune, Package,
                    Delete, Rename
<1>5. CASE Faults
  BY <1>3, <1>5 DEF Faults, ScanCutShort, PackageFails, PackageTorn, Stop, LoseIndex,
                    TakeIndexCutShort
<1>6. CASE Edit \/ UNCHANGED vars
  BY <1>3, <1>6 DEF Edit, vars
<1> QED
  BY <1>1, <1>2, <1>4, <1>5, <1>6 DEF Next, Supply, Retrieve

\* What a consumer has is an inventory that the supplier had, whatever was interrupted,
\* failed or was lost and however late its request, as long as it was given no differences
\* but those it asked for and those that were applied (InventoryRetriever,
\* InventoryBundler).
THEOREM FaithfulStays == Spec => []Faithful
<1>1. Init => FilesInv
  <2>1. Init => TypeInv
    BY InitTypes
  <2>2. Init => Links /\ Past /\ Chained /\ Faithful
    BY DEF Init, Links, Contiguous, Past, Chained, Faithful, Named, Nothing
  <2>3. Init => Packaged
    BY DEF Init, Packaged, Leads, Named, Nothing
  <2> QED
    BY <2>1, <2>2, <2>3 DEF FilesInv
<1>2. FilesInv /\ [Next]_vars => FilesInv'
  BY TypeStep, LinksStep, PastStep, ChainedStep, PackagedStep, FaithfulStep DEF FilesInv
<1>3. FilesInv => Faithful
  BY DEF FilesInv
<1> QED
  BY <1>1, <1>2, <1>3, PTL DEF Spec
=============================================================================
