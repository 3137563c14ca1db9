-------------------------- MODULE MCRuleKVManager ---------------------------
(***************************************************************************)
(* Two keys that may name the same subject, so that a delete of one finds  *)
(* the subject needed by the other, and a put may drop a subject, a core   *)
(* subject or a schedule from its key.                                     *)
(***************************************************************************)
EXTENDS RuleKVManager

CONSTANTS ka, kb, s1, c1, t1

MCVersions == {{s1}, {c1, t1}, {s1, c1}}
=============================================================================
