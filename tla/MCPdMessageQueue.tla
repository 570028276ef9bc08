-------------------------- MODULE MCPdMessageQueue --------------------------
(* An instance of PdMessageQueue: the messages of the Pd queue are a header *)
(* alone, a header and a list, or a header, a text and its padding.  Those  *)
(* of the MIDI queue are one structure each, like the header alone.         *)
EXTENDS PdMessageQueue

PdKinds == {<<>>, <<1>>, <<2>>, <<1, 1>>}
=============================================================================
