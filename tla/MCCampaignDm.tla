---------------------------- MODULE MCCampaignDm ----------------------------
(* A small room: two beats, two orchestrations of the process.             *)
EXTENDS CampaignDm, TLC

CONSTANTS r1, r2, w1, w2

Bound(R, W, n, k, moves, takeovers, restarts) ==
  [runs |-> R, workers |-> W, effects |-> n, attempts |-> k,
   world |-> moves, revision |-> takeovers, crashes |-> restarts]

\* One beat, two orchestrations of it and a restart, or a takeover; a composition
\* of two over a world and an authority that move; two beats of one room.
MCLimits ==
  {Bound({r1}, {w1, w2}, 1, 2, 0, 0, 1),
   Bound({r1}, {w1, w2}, 1, 1, 0, 1, 0),
   Bound({r1}, {w1}, 2, 1, 1, 1, 1),
   Bound({r1, r2}, {w1}, 1, 1, 0, 0, 0)}
=============================================================================
