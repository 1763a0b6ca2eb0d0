----------------------------- MODULE MCPipeline -----------------------------
(* Pipeline on the functions of MCLifeTime. *)
EXTENDS MCLifeTime, Pipeline

=============================================================================
