------------------------------- MODULE MCSeam -------------------------------
(* Instances of Seam for TLC, one per family of tools. *)
EXTENDS Seam

ShellAndWrite == {"run_command", "write_file"}
CommandsAndPaths == {"command", "code", "plain", "outside", "controlled"}
Post == {"net_post"}
Destinations == {"here", "there", "ineligible"}
NothingOrAll == {{}, Capabilities}
Everything == {Capabilities}
=============================================================================
