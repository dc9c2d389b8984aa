----------------------------- MODULE MCChunkText -----------------------------
EXTENDS ChunkText
=============================================================================
