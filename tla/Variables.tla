------------------------------ MODULE Variables ------------------------------
(***************************************************************************)
(* One declared variable from onboarding to every later command            *)
(* (aviato/core/variables.py): onboarding finds its value in the first     *)
(* source that names it and writes it to the declaration, which sync, scan *)
(* and drift detection then read alone.                                    *)
(***************************************************************************)
EXTENDS Naturals, Sequences

CONSTANTS
    Unset,       (* what a source holds that does not name the variable    *)
    Texts,       (* texts; a number or a date counts as its text           *)
    TrueTexts,   (* those that the boolean type takes for true ...         *)
    FalseTexts,  (* ... and for false                                      *)
    Domain       (* those that the enum type has in its domain             *)

(* As YAML has it: a boolean, a text, or nothing at all.                   *)
Raw == Texts \cup {"true", "false", "null"}

ASSUME VariablesAssumption ==
    /\ Texts \cap {"true", "false", "null"} = {} /\ Unset \notin Raw
    /\ TrueTexts \cup FalseTexts \cup Domain \cup {"True", "False"} \subseteq Texts
    /\ TrueTexts \cap FalseTexts = {}

Specs == [type : {"string", "boolean", "enum"}, secret : BOOLEAN, required : BOOLEAN,
          default : Raw]

(* flags, declaration, environment, auto-detection                         *)
Sources == {"flags", "declaration", "env", "autodetect"}
Precedence == <<"flags", "declaration", "env", "autodetect">>

VARIABLES spec, given, onboarded

variablesVars == <<spec, given, onboarded>>

-----------------------------------------------------------------------------
(* str() of a YAML value.                                                  *)
AsText(raw) == CASE raw = "true" -> "True" [] raw = "false" -> "False" [] OTHER -> raw

(* Results as a set: none where the code raises an error.                  *)
Coerce(s, raw) ==
    CASE s.type = "boolean" -> {"true" : x \in {raw} \cap (TrueTexts \cup {"true"})} \cup
                               {"false" : x \in {raw} \cap (FalseTexts \cup {"false"})}
      [] s.type = "enum" -> {AsText(raw)} \cap Domain
      [] OTHER -> {AsText(raw)}

(* The first source that names the variable, else the default.             *)
ResolveVariable(s, sources) ==
    LET naming == {i \in DOMAIN Precedence : sources[Precedence[i]] # Unset}
        first == CHOOSE i \in naming : \A j \in naming : i <= j
    IN  IF naming # {} THEN Coerce(s, sources[Precedence[first]])
        ELSE IF s.default # "null" THEN Coerce(s, s.default)
        ELSE IF s.required THEN {} ELSE {"null"}

(* A declaration may not hold a secret.                                    *)
ResolveDeclared(s, declared) ==
    LET value == ResolveVariable(s, [src \in Sources |-> IF src = "declaration" THEN declared ELSE Unset])
    IN  IF s.secret THEN IF declared \in {Unset, "null"} THEN value \cap {"null"} ELSE {}
        ELSE value

(* Faulty: leaves out what is false.                                       *)
WithoutFalse(s, value) ==
    IF s.secret /\ value # "null" THEN {}
    ELSE {IF value \in {"null", "false"} THEN Unset ELSE value}

(* What goes into the declaration: no secret, and no absent value.         *)
Writeback(s, value) ==
    IF s.secret /\ value # "null" THEN {}
    ELSE {IF value = "null" THEN Unset ELSE value}

-----------------------------------------------------------------------------
(* Onboarding: where the command goes through, the value that it renders   *)
(* the files with (the resolver runs once more on its own results) and     *)
(* what it has written.                                                    *)
Onboarded(s, sources) ==
    UNION {[value : ResolveDeclared(s, value), declared : Writeback(s, value)] : value \in ResolveVariable(s, sources)}

VariablesInit ==
    /\ spec \in Specs
    /\ given \in [Sources -> Raw \cup {Unset}]
    /\ \A src \in Sources \ {"declaration"} : given[src] \in Texts \cup {Unset}
    /\ onboarded = [asked |-> FALSE, results |-> {}]

Onboard ==
    /\ ~onboarded.asked
    /\ onboarded' = [asked |-> TRUE, results |-> Onboarded(spec, given)]
    /\ UNCHANGED <<spec, given>>

VariablesSpec == VariablesInit /\ [][Onboard]_variablesVars

-----------------------------------------------------------------------------
(* What onboarding worked with is what the later commands find in the      *)
(* declaration it wrote, to the exact value: no drift is made by adopting  *)
(* a repository.  An entry that names the variable and says nothing is the *)
(* exception: it hides the default once, and is not written back.          *)
ValuesRoundTrip ==
    \A r \in onboarded.results :
        \/ ResolveDeclared(spec, r.declared) = {r.value}
        \/ given["declaration"] = "null" /\ r.value = "null"

=============================================================================
