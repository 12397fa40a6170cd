------------------------------ MODULE MCLayout ------------------------------
(* Two processes that initialise two files, and one that reads them.        *)
EXTENDS Doctor, TLC

CONSTANTS s1, s2, config, spore

MCOrder == <<config, spore>>
=============================================================================
