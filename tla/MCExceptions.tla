---------------------------- MODULE MCExceptions ----------------------------
(* Two signals: one that is forwarded to the old handler and one that is not. *)
EXTENDS Exceptions

TwoSignals == <<"SIGSEGV", "SIGINT">>
=============================================================================
