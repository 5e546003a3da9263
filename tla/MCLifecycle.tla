----------------------------- MODULE MCLifecycle -----------------------------
(* Two connections, the first of an administrator, the second with a service, and
   two sessions or tunnels, one of which may be a proxy's. *)
EXTENDS Lifecycle, TLC

CONSTANTS c1, c2, admin, guest

MCConns == {c1, c2}
MCUserOf == c1 :> admin @@ c2 :> guest
MCAdmins == {c1}
MCServing == {c2}
==============================================================================
