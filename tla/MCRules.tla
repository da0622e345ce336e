-------------------------------- MODULE MCRules --------------------------------
(* ValidationRules with patches of every field of the screen.               *)
EXTENDS ValidationRules
LOCAL V == INSTANCE MCValues
MCPatches == V!SomePatches
MCEmails  == V!SomeEmails
MCAnswers == V!SomeAnswers
=============================================================================
