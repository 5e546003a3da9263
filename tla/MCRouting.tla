------------------------------ MODULE MCRouting ------------------------------
(* The host a.b may stand for the service "a" of user b or for the service
   without a name of user a.b; the latter is never exposed. *)
EXTENDS Routing, TLC

UserB == <<"b">>
UserAB == <<"a", "b">>
MCUsers == {UserB, UserAB}
MCOneUser == {UserB}
MCOneHost == {<<"a", "b">>}
MCOneService == {<<"a">>}
==============================================================================
