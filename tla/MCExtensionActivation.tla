------------------------- MODULE MCExtensionActivation -------------------------
(***************************************************************************)
(* ExtensionActivation with three extensions: tool needs base and, after   *)
(* it, lib.                                                                *)
(***************************************************************************)
EXTENDS ExtensionActivation

CONSTANTS base, lib, tool

MCExt == {base, lib, tool}
MCDeps == [x \in MCExt |-> IF x = tool THEN <<base, lib>> ELSE <<>>]
MCOnEvent == {tool, lib}
================================================================================
