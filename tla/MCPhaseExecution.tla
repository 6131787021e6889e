-------------------------- MODULE MCPhaseExecution --------------------------
(* Instances of PhaseExecution for TLC.                                    *)
EXTENDS PhaseExecution

P(ops, mode) == [ops |-> ops, onError |-> mode]

(* A conversion whose plan is applied again by the next operation; a remux  *)
(* before a transcode; two edits, with an error mode of their own; each     *)
(* alone, and those that change the name or the content before the others. *)
Convert == P(<<"convert", "convert">>, None)
Rewrite == P(<<"remux", "transcode">>, None)
Edit    == P(<<"edit", "edit">>, "continue")

McPolicies ==
  [phases : {<<Convert>>, <<Rewrite>>, <<Edit>>, <<Convert, Rewrite>>,
             <<Convert, Edit>>, <<Edit, Convert>>, <<Rewrite, Convert>>},
   onError : Modes]

(* The policy of the counterexample.                                       *)
ConvertPolicy == {[phases |-> <<P(<<"convert">>, None)>>, onError |-> "continue"]}
=============================================================================
