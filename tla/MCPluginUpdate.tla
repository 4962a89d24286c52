---------------------------- MODULE MCPluginUpdate ----------------------------
(* A small instance of PluginUpdate: a phone that asks twice for a version, two  *)
(* processes of the Host and two writes that fail.                             *)
EXTENDS PluginUpdate, TLC

CONSTANTS first, second, phone

MCOwner == [r \in {first, second} |-> phone]
MCTo == [r \in {first, second} |-> 2]
=============================================================================
