------------------------ MODULE MCPipelineController ------------------------
EXTENDS PipelineController
=============================================================================
