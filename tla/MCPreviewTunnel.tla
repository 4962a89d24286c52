--------------------------- MODULE MCPreviewTunnel ---------------------------
(* Small instances of PreviewTunnel: one stream id, used again, a window of a few*)
(* chunks, so that windows, the send buffer and the ids run out.              *)
EXTENDS PreviewTunnel, TLC

CONSTANTS one, web
=============================================================================
