-------------------------- MODULE MCValidationSuite --------------------------
(* Two MI50s and a foreign card, and a suite with the kinds of steps that  *)
(* differ ("optional" behaves as "plain" does, and may be unsupported).    *)
EXTENDS ValidationSuite

CONSTANTS mi50, sibling, foreign
MCCards == {mi50, sibling, foreign}

MCAgent == [c \in MCCards |->
  IF c = foreign THEN [name |-> "other", wave |-> 32]
  ELSE [name |-> "gfx906", wave |-> IF c = mi50 THEN 64 ELSE 0]]

MCSteps == <<"readiness", "gate", "strict", "optional", "pair">>
=============================================================================
