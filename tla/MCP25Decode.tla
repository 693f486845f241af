----------------------------- MODULE MCP25Decode -----------------------------
(* P25Decode with its real constants; the signal may break off in a NID, in *)
(* a header, in a codeword, in link control, and at the end of a frame.     *)
EXTENDS P25Decode

MCBreaks == {5, 20, 150, 210, 400, 840}
=============================================================================
