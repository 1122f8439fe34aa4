---------------------------- MODULE MCProvisioning ----------------------------
(* One repository, a check the ruleset template names and one it does not. *)
EXTENDS Provisioning

CONSTANTS lint, ci

=============================================================================
