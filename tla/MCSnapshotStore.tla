-------------------------- MODULE MCSnapshotStore --------------------------
(***************************************************************************)
(* SnapshotStore for TLC: five payloads around the acceptance boundaries.  *)
(***************************************************************************)
EXTENDS SnapshotStore

Payload(seq, issued, expires, scope, body) ==
    [sequence |-> seq, issuedAt |-> issued, expiresAt |-> expires,
     scope |-> scope, body |-> body]

\* Two with the same sequence and different bytes, one that expires early, one
\* issued in the future, one of another scope.
MCPayloads == {
    Payload(1, 0, NoExpiry, "prod", "a"),
    Payload(2, 0, 1, "prod", "a"),
    Payload(2, 0, NoExpiry, "prod", "b"),
    Payload(3, 2, NoExpiry, "prod", "a"),
    Payload(4, 0, NoExpiry, "stage", "a") }
=============================================================================
