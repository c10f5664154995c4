---------------------------- MODULE MCTelegramBot -----------------------------
(* TelegramBot with its constants given by the configuration.              *)
EXTENDS TelegramBot
=============================================================================
