---------------------------- MODULE MCNorthbridge ---------------------------
(* The Pi's port, the lighting controller's port and one nobody is bound to. *)
EXTENDS Northbridge, TLC

CONSTANTS main, lighting, stranger, intruder

FirmwareBindings == [a \in {main, lighting} |-> IF a = main THEN 0 ELSE 1]

Strangers == Permutations({stranger, intruder})

\* Nothing fails, one port does, all do.
SomeFail == {{}, {1}, Ports}
=============================================================================
