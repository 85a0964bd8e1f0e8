----------------------------- MODULE MCStartup -----------------------------
(* A user with one version and a server with another. *)
EXTENDS Startup

MCVersions == {<<1, 2, 0>>, <<1, 9, 1>>, <<1, 10, 0>>, <<1, 12, 0>>, <<2, 0, 0>>}
MCNames == Known \cup {"unknown", ""}
=============================================================================
