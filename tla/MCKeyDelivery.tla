--------------------------- MODULE MCKeyDelivery ----------------------------
(***************************************************************************)
(* KeyDelivery towards a Unix client, with its injector's table: a         *)
(* modifier with two sides, which share an image, and an ordinary key.     *)
(***************************************************************************)
EXTENDS KeyDelivery, KeyMaps

SomeKeys == {"ShiftLeft", "ShiftRight", "Slash"}
SomeMods == {"ShiftLeft", "ShiftRight"}

\* to_enigo_key on those keys.
SomeImages == [k \in SomeKeys |-> UnixKeys[k]]

\* At every step the tables keep the keys of the whole keyboard apart, not only
\* those the run sends (keymap_win.rs, unix.rs).
TablesAgree == [][KeysArrive]_vars

\* What protocol.rs says of raw codes, likewise.
RawNeverForeign == [][RawStaysHome]_vars
=============================================================================
