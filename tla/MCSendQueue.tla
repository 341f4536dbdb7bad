------------------------------ MODULE MCSendQueue ------------------------------
(* SendQueueClients on a small instance. *)
EXTENDS SendQueueClients
=============================================================================
