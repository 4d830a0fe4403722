------------------------------ MODULE MCHealth ------------------------------
(* Two providers, one slot, and a run that overlaps with the ticker's.       *)
EXTENDS Health
CONSTANTS groq, cerebras, request, boot
=============================================================================
