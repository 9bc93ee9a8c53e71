------------------------------ MODULE MCLogin ------------------------------
(* One session that authenticates again once; two listeners; a few lines.   *)
EXTENDS Login

CONSTANTS loopback, tailscale

MCListeners == {loopback, tailscale}

=============================================================================
