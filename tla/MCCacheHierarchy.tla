--------------------------- MODULE MCCacheHierarchy ---------------------------
(* Instances of CacheHierarchy with two or three levels.                    *)
EXTENDS CacheHierarchyRefinement

Same(x) == [l \in Levels |-> x]
One == Same(1)
Two == Same(2)
Three == Same(3)
ThreeTwo == [l \in Levels |-> IF l = 0 THEN 3 ELSE 2]
Nmru == Same("nmru")
TrueLru == Same("trulru")
\* a direct-mapped first level in front of true LRU and random levels
MixedPolicy == [l \in Levels |-> IF l = 0 THEN "direct" ELSE IF l = 1 THEN "trulru" ELSE "random"]
\* two sets in the first level only
MixedSets == [l \in Levels |-> IF l = 0 THEN 2 ELSE 1]
MixedAssoc == [l \in Levels |-> IF l = 0 THEN 1 ELSE 2]
=============================================================================
