--------------------------- MODULE MCServerHandlers ---------------------------
(* An instance of ServerHandlers.                                             *)
EXTENDS ServerHandlers, TLC

CONSTANTS r1, r2, r3, r4, d1, d2, m1, m2

MCUses ==
    (r1 :> {<<"register", d1>>}
     @@ r2 :> {<<k, d1>> : k \in {"error", "status", "response", "settings", "list"}}
     @@ r3 :> {<<"listen", m1>>}
     @@ r4 :> {<<"listen", m1>>, <<"listen", m2>>})
=============================================================================
