---------------------------- MODULE MCManager ------------------------------
(* Two hyperloops, named h1 and h2.                                        *)
EXTENDS Manager
CONSTANTS h1, h2
============================================================================
