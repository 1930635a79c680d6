------------------------------ MODULE Curveballs ------------------------------
(***************************************************************************)
(* AdversarialGenerator of rsi/adversarial.py: one case for a failure mode *)
(* it is steered to, written by a model or taken from the static ones.     *)
(***************************************************************************)
CONSTANT None

(* _STATIC_FALLBACK                                                        *)
Static == {"integer_overflow", "empty_input", "negative_numbers", "off_by_one"}

(* _default_static_case                                                    *)
Template(mode) == IF mode \in Static THEN mode ELSE "integer_overflow"

(* What the generator may get: no key or no answer, an answer of another   *)
(* shape, a text with no JSON object, an object that lacks the prompt or   *)
(* the output, a case, and a content that is no text, which raises.        *)
Answers == {"no_answer", "malformed", "no_object", "empty_fields", "case", "no_text"}

Raises(answer) == answer = "no_text"

(* generate_curveball: what is asked of the solver, and under which label. *)
Curveball(mode, answer) ==
    [mode |-> mode, trap |-> IF answer = "case" THEN "written" ELSE Template(mode)]
===============================================================================
