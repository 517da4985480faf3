--------------------- MODULE InventoryExchangeProperties ---------------------
(* The properties of the exchange of inventories.                                *)
EXTENDS InventoryExchange

\* Whatever stops a run, each difference kept leads from the inventory of its name to that
\* of the next difference, and the last to the index; one that was found for the index
\* itself is not yet applied (InventoryDifferencePruner: "the inventory differences must
\* remain contiguous").
Contiguous ==
    index # None =>
        \A s \in Named(diffs) \ {index.stamp} :
            LET t == diffs[s].stamp IN
            /\ s < t
            /\ t \in Named(diffs) \cup {index.stamp}
            /\ \A u \in Named(diffs) : u <= s \/ u >= t

\* What the consumer has is an inventory that the supplier had, whichever bundles it was
\* made of, unless it was sent differences that it did not ask for, or ones that were never
\* applied (InventoryRetriever.getNewInventory, InventoryBundler.bundleInventory).
Faithful == inv # None /\ ~astray => inv \in history

\* In the end the consumer has the supplier's index, which describes the content set:
\* after any interrupt, crash or failure, unless it left an index without its bundles, or
\* differences went astray. (An index that never comes to describe it uses up the clock.)
Converges ==
    <>[](published /\ ~astray /\ clock < MaxClock
            => inv # None /\ inv = index /\ index.content = content)

\* An index with the timestamp of a difference says what the difference says: "the merge
\* process continues down the tree" (MergedNode.getChildren).
MergeGoesDown ==
    \A s \in Named(diffs) :
        index # None /\ index.stamp = diffs[s].stamp =>
            \A e \in Entries : \/ diffs[s].changes[e] = Same
                               \/ index.content[e] = diffs[s].changes[e]
=============================================================================
