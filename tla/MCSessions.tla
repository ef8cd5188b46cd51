------------------------------ MODULE MCSessions ------------------------------
(***************************************************************************)
(* Sessions with one seeded user and two names to register, one of which   *)
(* is the email of somebody else.                                          *)
(***************************************************************************)
EXTENDS Sessions

MCSeedUsers == << [username |-> "demo", email |-> "demo@x", password |-> "DemoPass"] >>

MCHalved(password) == "Demo"
=============================================================================
