---------------------------- MODULE MCHostService ----------------------------
(* HostService with a bound for the runs in which commands overlap.         *)
EXTENDS HostService

\* The bus starts no portal of its own; the daemons' portals still contend for
\* the name.
NotActivated == portal[Bus] = "none"
=============================================================================
