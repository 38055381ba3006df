--------------------------- MODULE MCTorrentPoller ----------------------------
(* Instances of TorrentPoller for TLC. *)
EXTENDS TorrentPoller
===============================================================================
