-------------------------- MODULE MCRulesetDelivery --------------------------
(* Small instances of RulesetDelivery: the clients and the request slots are *)
(* interchangeable in the safety runs.                                       *)
EXTENDS RulesetDelivery, TLC

Symmetry == Permutations(Handlers)
=============================================================================
