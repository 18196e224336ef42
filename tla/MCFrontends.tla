----------------------------- MODULE MCFrontends -----------------------------
(***************************************************************************)
(* Frontends for TLC: one user, a provider with two models.                *)
(***************************************************************************)
EXTENDS Frontends, TLC

CONSTANTS m1, m2, MaxFrontendCalls

FrontendCalls == Tui :> MaxFrontendCalls
=============================================================================
