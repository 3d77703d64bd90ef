-------------------------- MODULE MCResponseCache --------------------------
EXTENDS ResponseCache, TLC

Symmetry == Permutations(Callers) \cup Permutations(Keys)

\* What the next steps and the properties can still read: cells no pointer
\* reaches and locals a caller has left behind hold no state, so states that
\* differ only there are one state.
Reachable == Entries \ FreeEntries

Live(c) ==
    CASE pc[c] = "returned"         -> <<pc[c], answer[c].err, ctx[c]>>
      [] pc[c] = "idle"             -> <<pc[c]>>
      [] pc[c] = "publishing"       -> <<pc[c], key[c], entry[c], joined[c], ctx[c], answer[c]>>
      [] OTHER                      -> <<pc[c], key[c], entry[c], joined[c], ctx[c]>>

View == <<remote, slot, [e \in Reachable |-> heap[e]], position, [c \in Callers |-> Live(c)], floor, seen>>
=============================================================================
