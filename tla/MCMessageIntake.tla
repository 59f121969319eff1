---------------------------- MODULE MCMessageIntake ----------------------------
(* Model-checking instance of MessageIntake: dialogues of three messages that *)
(* overlap in every way two workers allow.                                    *)
EXTENDS MessageIntake

Dialogues ==
    {<<"topic", "monitor", "start">>, <<"topic", "start", "start">>, <<"topic", "start", "cancel">>,
     <<"topic", "cancel", "start">>, <<"topic", "topic", "start">>, <<"command", "topic", "other">>}
=============================================================================
