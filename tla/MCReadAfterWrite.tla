-------------------------- MODULE MCReadAfterWrite --------------------------
EXTENDS ReadAfterWrite, TLC

Symmetry == Permutations(Callers) \cup Permutations(Keys) \cup Permutations(Writers)

\* As in MCResponseCache: unreachable cells and abandoned locals are not state.
Live(c) ==
    CASE pc[c] = "returned"   -> <<pc[c], answer[c].err, ctx[c]>>
      [] pc[c] = "idle"       -> <<pc[c]>>
      [] pc[c] = "publishing" -> <<pc[c], key[c], entry[c], joined[c], ctx[c], answer[c]>>
      [] OTHER                -> <<pc[c], key[c], entry[c], joined[c], ctx[c]>>

View ==
    <<remote, slot, [e \in Entries \ FreeEntries |-> heap[e]], position,
      [c \in Callers |-> Live(c)], floor, seen,
      wpc, wkey, stray, settled>>
=============================================================================
