------------------------------ MODULE MCRtmpChunk ------------------------------
(* Instances of RtmpChunk for TLC; the constants are set in the .cfg files. *)
EXTENDS RtmpChunk
================================================================================
