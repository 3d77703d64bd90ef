--------------------------- MODULE MCCachedReads ---------------------------
(***************************************************************************)
(* CachedReads with each data source and cached refresh alone, and with    *)
(* any two reads that share a cache entry.                                 *)
(***************************************************************************)
EXTENDS CachedReads, TLC

CONSTANTS a1, a2, i1, i2

D == INSTANCE DataSources

All == {D!DataSources[n] : n \in DOMAIN D!DataSources} \cup {D!CachedRefreshes[n] : n \in DOMAIN D!CachedRefreshes}

MCBatches ==
    {<<s>> : s \in All} \cup {<<s, t>> \in All \X All : s.cache # "" /\ s.cache = t.cache}
MCArgs == {a1, a2}
MCItems == {i1, i2}

Symmetry == Permutations(MCArgs) \cup Permutations(MCItems) \cup Permutations(Readers)

=============================================================================
