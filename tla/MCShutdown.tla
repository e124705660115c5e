---- MODULE MCShutdown ----
(* Two hosted processes, stopped in the order Manager.Start appends them. *)
EXTENDS Shutdown

CONSTANTS victoriametrics, vmagent

MCProcs == {victoriametrics, vmagent}
MCOrder == <<victoriametrics, vmagent>>

====
