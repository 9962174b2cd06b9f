--------------------------- MODULE MCCoreSession ---------------------------
(***************************************************************************)
(* CoreSession for TLC.                                                    *)
(***************************************************************************)
EXTENDS CoreSession

Payload(seq, since) ==
    [sequence |-> seq, issuedAt |-> since, expiresAt |-> NoExpiry,
     scope |-> "prod", body |-> "a"]

\* The second policy asks for one more fact than the first.
MCPayloads == {Payload(1, 0), Payload(2, 1)}

Node(required, optional) ==
    [required |-> required, optional |-> optional,
     planningError |-> FALSE, unknown |-> FALSE]
BrokenNode == [Node({}, {}) EXCEPT !.planningError = TRUE]

\* A single action, a batch one child of which cannot be planned, a batch one
\* child of which cannot be interpreted, and a request nobody can decode.
Single == [name |-> "single", decodes |-> TRUE, partial |-> FALSE]
Broken == [name |-> "broken", decodes |-> TRUE, partial |-> FALSE]
Opaque == [name |-> "opaque", decodes |-> TRUE, partial |-> FALSE]
Garbage == [name |-> "garbage", decodes |-> FALSE, partial |-> FALSE]
MCPlanned(r, p) ==
    CASE r = Single -> IF p.sequence = 1 THEN <<Node({0}, {1})>> ELSE <<Node({0, 1}, {})>>
      [] r = Broken -> <<Node({0}, {}), BrokenNode>>
      [] r = Opaque -> <<Node({}, {}), [Node({}, {}) EXCEPT !.unknown = TRUE]>>
      [] r = Garbage -> <<>>
MCRequests == {Single, Broken, Opaque}
MCTwoRequests == {Single, Garbage}

Fact(call, at) == [call |-> call, observedAt |-> at]
Batch(n, facts) == [readable |-> TRUE, plan |-> n, results |-> facts]

\* Facts of the right plan, fresh or not; none; facts of another plan, of a
\* call the plan does not have, of a wrong shape.
MCBatches ==
    {Batch(1, {Fact(0, at)}) : at \in {0, 2}}
    \cup {Batch(1, {Fact(0, 1), Fact(1, at)}) : at \in 1 .. 3}
    \cup {Batch(1, {}), Batch(2, {Fact(0, 1)}), Batch(1, {Fact(0, 1), Fact(1, MaxSafeInteger + 1)}),
          [Batch(1, {}) EXCEPT !.readable = FALSE]}
MCOneBatch == {Batch(1, {Fact(0, 1)})}
=============================================================================
