--------------------------- MODULE MCJobLifecycle ---------------------------
(***************************************************************************)
(* Instances of JobLifecycle for TLC.                                      *)
(***************************************************************************)
EXTENDS JobLifecycle, TLC

\* Connections are interchangeable.
ConnSymmetry == Permutations(Conn)

\* Bound: a behaviour has a revocation, or a drop of the network, not both.
RevokedOrDropped == revokePc = "idle" \/ drops = 0

\* Bound: once the network or the agent program has failed, no cancellation is
\* made or under way.
CancelledOrFailed == drops + crashes = 0 \/ \A r \in Request : cancelPc[r] = "idle"

\* Bound: once both have failed, there is no session.
NothingAfterBoth == drops + crashes <= 1 \/ sStatus = "none"
=============================================================================
