---------------------------- MODULE MCAdvice ----------------------------
(* One repository, a check the ruleset template names and one it does not. *)
EXTENDS RecoveryAdvice

CONSTANTS lint, ci

=============================================================================
