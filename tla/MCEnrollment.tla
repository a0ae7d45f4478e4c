---------------------------- MODULE MCEnrollment ----------------------------
(* Instances of Enrollment for TLC. *)
EXTENDS Enrollment, TLC

Symmetry == Permutations(VM) \cup Permutations(EK) \cup Permutations(Conn)
            \cup Permutations(Session)

\* Reloads are what the YAML inventory is exposed to, guests that come and go what
\* the Proxmox backend is; a pin file may be reset in either.
MCOutside == [m \in Mode |-> IF m = "yaml" THEN {"pinned", "reset"} ELSE {"gone"}]

\* Whatever is done to the pins of a VM under running legs.
MCPins == [m \in Mode |-> {"pinned", "reset", "repinned", "hand"}]

\* A pin is given to a VM that has none.
MCPinned == [m \in Mode |-> {"pinned"}]
=============================================================================
