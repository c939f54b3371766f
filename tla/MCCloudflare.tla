----------------------------- MODULE MCCloudflare -----------------------------
(***************************************************************************)
(* An instance of Cloudflare: pages of one record, so that two wanted      *)
(* records and an unmanaged one fill three.                                *)
(***************************************************************************)
EXTENDS Cloudflare

=============================================================================
