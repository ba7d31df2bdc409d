-------------------------- MODULE MCDesktopShell --------------------------
(* Two launches, three hubs, one release that may be withdrawn.            *)
EXTENDS DesktopShell
=============================================================================
