-------------------------- MODULE MCAdminSessions ---------------------------
(* TLC instance of AdminSessions. *)
EXTENDS AdminSessions

=============================================================================
