---------------------------- MODULE RecoveryAdvice ----------------------------
(***************************************************************************)
(* Provisioning with a memory of what the messages told the operator to    *)
(* do, and whether doing it led back to the same message.                  *)
(***************************************************************************)
EXTENDS Provisioning

VARIABLE advice

adviceVars == <<vars, advice>>

Said(what) == cmd'.kind = "none" /\ report' = what
              /\ (cmd.kind # "none" \/ (what = "undeclared" /\ report' # report))

(* What the operator was told last and has done about it, as long as       *)
(* nobody else interferes.                                                 *)
AdviceNext ==
    /\ Next
    /\ advice' =
         CASE moves' # moves -> "none"
           [] Said("unprotected") -> "complete"
           [] advice = "complete" /\ clone' # clone -> "cloned"
           [] advice = "cloned" /\ Said("undeclared") -> "completeAgain"
           [] Said("owned") -> IF advice = "applied" THEN "rulesetsAgain" ELSE "rulesets"
           [] advice = "rulesets" /\ Said("applied") -> "applied"
           [] OTHER -> advice

AdviceSpec == Init /\ advice = "none" /\ [][AdviceNext]_adviceVars

(* "Protect it now with: aviato complete-protection <local-clone-of-...>": *)
(* the command does not refuse a clone of the repository as provision left *)
(* it.                                                                     *)
RecoveryAdviceHelps == advice # "completeAgain"

(* "...enforced by a ruleset, which this settings reconcile cannot write": *)
(* the advised apply-rulesets, if it succeeds, removes the reason for the  *)
(* refusal.                                                                *)
RulesetAdviceHelps == advice # "rulesetsAgain"

=============================================================================
