------------------------- MODULE MCPipelineValidation -------------------------
(* Small instances of PipelineValidation.                                    *)
EXTENDS PipelineValidation

CONSTANTS n1, n2, n3

=============================================================================
