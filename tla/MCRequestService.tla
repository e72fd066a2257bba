-------------------------- MODULE MCRequestService --------------------------
(* RequestService on small instances. *)
EXTENDS RequestService
=============================================================================
