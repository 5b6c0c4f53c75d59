--------------------------- MODULE MCGcpLauncher ---------------------------
(* The components of the package against three remote jobs.               *)
EXTENDS GcpLauncher, GcpComponents

CONSTANTS j1, j2, j3

MCJobIds == {j1, j2, j3}

\* The abbreviated flag that two components of the package use.
MCAbbreviations == {<<"gcp_resource", "gcp_resources">>}

=============================================================================
