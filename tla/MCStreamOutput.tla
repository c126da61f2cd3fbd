--------------------------- MODULE MCStreamOutput ---------------------------
(* Streams for the runs of StreamOutput: text whose column an empty snapshot *)
(* leaves alone, and a tool's output whose column it empties.                *)
EXTENDS StreamOutput

CONSTANTS content, toolOutput

TwoKinds == {content, toolOutput}
ToolOnly == {toolOutput}
=============================================================================
