-------------------------- MODULE MCAuditPipeline --------------------------
(* Small instances of AuditPipeline. *)
EXTENDS PipelineProcesses

Audits == Pipeline!Spec
=============================================================================
