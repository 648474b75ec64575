------------------------------ MODULE MCStorage ------------------------------
(* Storage alone: one upload of a body as large as a stream's buffer.       *)
EXTENDS Storage

CONSTANTS f, c1

OneFile == {f}
OneClient == {c1}
=============================================================================
