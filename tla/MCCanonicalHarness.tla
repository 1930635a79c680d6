------------------------- MODULE MCCanonicalHarness -------------------------
(* CanonicalHarness for TLC.  In one population a partly confirmed and a   *)
(* killed advocate outscore the only confirmed one; the other has nothing  *)
(* to promote.                                                             *)
EXTENDS CanonicalHarness, TLC

CONSTANTS d, o

Adv(outcome, score) == [outcome |-> outcome, aggregate |-> score,
                        best |-> score]

MCPopulations ==
  {(0 :> Adv("confirmed", 0) @@ 1 :> Adv("partial", 1)
      @@ 2 :> Adv("refuted_live", 1)),
   (0 :> Adv("refuted", 1) @@ 1 :> Adv("none", 1))}
=============================================================================
