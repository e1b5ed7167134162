----------------------------- MODULE MCExporter -----------------------------
(* Small instances of the exporter for TLC. *)
EXTENDS Exporter
=============================================================================
