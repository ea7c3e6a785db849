-------------------------- MODULE MCConfigWriters --------------------------
(***************************************************************************)
(* The TLC instance of ConfigWriters: two requests, two servers.           *)
(***************************************************************************)
EXTENDS ConfigWriters

CONSTANTS normal, ready, empty, name

MCApp == {normal, ready}
MCName == {empty, name}
SomeConfigs == {c \in Config : c.domain = name}
=============================================================================
