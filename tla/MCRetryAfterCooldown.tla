------------------------ MODULE MCRetryAfterCooldown ------------------------
\* Instances of RetryAfterCooldown for TLC.
EXTENDS RetryAfterCooldown, TLC

CONSTANTS r1, r2, r3

TwoRequests == {r1, r2}
ThreeRequests == {r1, r2, r3}
ShortAndLong == {1, 2}

Symmetry == Permutations(Requests)

\* States that differ only in a variable nobody will read again are the same.
View ==
    <<clock, shared, pc, release, promised,
      [r \in Requests |->
          [ctx           |-> IF pc[r] \in {"attempt", "observe", "release", "body"} THEN "any" ELSE ctx[r],
           coordinated   |-> pc[r] \notin {"release", "body"} /\ coordinated[r],
           seenUntil     |-> IF pc[r] \in {"decide", "asleep", "confirm"} THEN seenUntil[r] ELSE 0,
           seenGeneration |-> IF pc[r] \in {"confirm", "attempt", "observe"} THEN seenGeneration[r] ELSE 0,
           reply         |-> IF pc[r] = "observe" THEN reply[r] ELSE NoReply,
           looked        |-> IF pc[r] \in {"confirm", "attempt", "observe"} THEN looked[r] ELSE 0]]>>

=============================================================================
