---------------------------- MODULE MCTelegramBot ----------------------------
(***************************************************************************)
(* One or two rooms and traders; a pass that takes two fills and a message *)
(* of one line, so that what is owed does not fit in one of either.        *)
(***************************************************************************)
EXTENDS TelegramBot
==============================================================================
