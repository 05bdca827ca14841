---------------------------- MODULE MCAutomation ----------------------------
(* Model checking of Automation: the rules in the order of the query. *)
EXTENDS Automation

CONSTANTS a, b, c

OneRule == <<a>>
TwoRules == <<a, b>>

=============================================================================
