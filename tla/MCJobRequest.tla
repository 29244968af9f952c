--------------------------- MODULE MCJobRequest ---------------------------
(* Instances of JobRequest for TLC.                                        *)
EXTENDS JobRequest

\* Every single bit, no bit, and pairs of commands in one header.
MCRogueTypes == {{b} : b \in Bits} \cup {{}, {1, 3}, {3, 7}}
=============================================================================
