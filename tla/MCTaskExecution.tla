-------------------------- MODULE MCTaskExecution --------------------------
(* Messages: a plain one, a decision in text, and decisions of both kinds. *)
EXTENDS TaskExecution

SomeMessages == {<<"text">>, <<"text", "approve">>, <<"approve", "dataDeny">>, <<"both">>, <<"data", "dataApprove">>}
=============================================================================
