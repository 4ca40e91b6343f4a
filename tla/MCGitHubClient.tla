--------------------------- MODULE MCGitHubClient ---------------------------
(* Two installations as model values. *)
EXTENDS GitHubClient

CONSTANTS i1, i2
=============================================================================
