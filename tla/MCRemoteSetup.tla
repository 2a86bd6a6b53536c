---------------------------- MODULE MCRemoteSetup ----------------------------
(* RemoteSetup on small instances. *)
EXTENDS RemoteSetup, TLC

CONSTANTS b1, b2, c1, c2

At(key, row, column) == [key |-> key, row |-> row, column |-> column]

(* One button; two, and the same two exchanged. *)
LayoutsMC == {
  b1 :> At("power", 0, 0),
  (b1 :> At("power", 0, 0)) @@ (b2 :> At("mute", 1, 0)),
  (b1 :> At("mute", 1, 0)) @@ (b2 :> At("power", 0, 0))}

KeysMC == {"power", "mute", "temporary-1", "temporary-2"}
TemporaryKeyMC == (b1 :> "temporary-1") @@ (b2 :> "temporary-2")

(* Two controllers of one name, of which one is an air conditioner's. *)
FoldMC == [n \in {"ESP32"} |-> "esp32"]
NameOfMC == (c1 :> "esp32") @@ (c2 :> "esp32")
ServesMC == (c1 :> {"raw", "lg_tv"}) @@ (c2 :> {"raw", "ac"})
=============================================================================
