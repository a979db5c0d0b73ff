--------------------------- MODULE MCDockerClient ---------------------------
(* Instances of DockerClient for TLC; the holders are model values. *)
EXTENDS DockerClient

=============================================================================
