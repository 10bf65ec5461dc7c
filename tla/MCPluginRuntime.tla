-------------------------- MODULE MCPluginRuntime --------------------------
(***************************************************************************)
(* PluginRuntime with two usable documents that differ, an enabled one that*)
(* fails the product rules, one the schema rejects, and one switched off.  *)
(***************************************************************************)
EXTENDS PluginRuntime

Document(enabled, broken, invalid, values) ==
  [enabled |-> enabled, broken |-> broken, invalid |-> invalid, values |-> values]

MCDocuments ==
  {Document(TRUE, FALSE, FALSE, "old host"), Document(TRUE, FALSE, FALSE, "new host"),
   Document(TRUE, FALSE, TRUE, "no recipient"), Document(TRUE, TRUE, FALSE, "bad port"),
   Document(FALSE, FALSE, TRUE, "no recipient")}
=============================================================================
