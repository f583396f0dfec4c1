---------------------------- MODULE MCInstaller ----------------------------
(* Instances of Installer for TLC. *)
EXTENDS Installer

MCChains == {<<"net">>, <<"net", "bandwidth", "meta">>}

=============================================================================
