------------------------------ MODULE MCDocker ------------------------------
(***************************************************************************)
(* Small instances of DockerWatch: two containers that share a host name,  *)
(* and one whose port is not published.                                    *)
(***************************************************************************)
EXTENDS DockerWatch

CONSTANTS c1, c2, c3, h1, h2, t1, t2

MCHostsOf == (c1 :> <<h1, h2>>) @@ (c2 :> <<h1>>) @@ (c3 :> <<h2>>)

MCTargetOf == (c1 :> t1) @@ (c2 :> t2) @@ (c3 :> t1)
=============================================================================
