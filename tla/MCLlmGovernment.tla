---------------------------- MODULE MCLlmGovernment ----------------------------
(* LlmGovernment with the bounds its .cfg files give. *)
EXTENDS LlmGovernment
==============================================================================
