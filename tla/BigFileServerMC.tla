-------------------------- MODULE BigFileServerMC --------------------------
(* BigFileServer for TLC: clients and bounds are given by the cfg.         *)
EXTENDS BigFileServer
=============================================================================
