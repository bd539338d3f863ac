--------------------------- MODULE MCPromptStream ---------------------------
(* Instances of PromptStream for TLC. *)
EXTENDS PromptStream, TLC

CONSTANTS p1, p2, s1

\* Both prompts on the one session.
OneSession == [r \in Requests |-> s1]
=============================================================================
