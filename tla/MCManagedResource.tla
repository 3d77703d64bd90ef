------------------------- MODULE MCManagedResource -------------------------
\* ManagedResource over the kinds of handlers and attributes that Resources lists.
EXTENDS ManagedResource

CONSTANTS v1, v2

R == INSTANCE Resources

MCKinds == R!AllKinds
MCValues == {v1, v2}

=============================================================================
