-------------------------- MODULE MCArchiveSession --------------------------
(***************************************************************************)
(* ArchiveSession for TLC: two client threads with two calls each, and a   *)
(* request of each execution envelope.                                     *)
(***************************************************************************)
EXTENDS ArchiveSession

CONSTANTS dialog, remote

MCClients == {dialog, remote}
MCEnvelopes == {"direct", "cancelable", "pauseable"}
=============================================================================
