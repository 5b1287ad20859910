------------------------------ MODULE MCInproc ------------------------------
(* Three client threads that dial and send.                                *)
EXTENDS Inproc

=============================================================================
