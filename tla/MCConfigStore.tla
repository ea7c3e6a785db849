--------------------------- MODULE MCConfigStore ---------------------------
(***************************************************************************)
(* TLC instances of ConfigStore: two values of each kind of field.         *)
(***************************************************************************)
EXTENDS ConfigStore

CONSTANTS normal, ready, empty, name

MCApp == {normal, ready}
MCName == {empty, name}
SomeConfigs == {c \in Config : c.domain = name}
=============================================================================
