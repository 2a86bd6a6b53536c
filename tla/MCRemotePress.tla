---------------------------- MODULE MCRemotePress ----------------------------
(* RemotePress on small instances. *)
EXTENDS RemotePress, TLC

Remote(type, voice, confirm) ==
  [type |-> type, ready |-> TRUE, voice |-> voice, guest |-> voice, confirm |-> confirm]

(* A television whose button is sensitive, is not, or is withdrawn; an air  *)
(* conditioner; a remote with nothing configured.                           *)
Remotes == {Remote("lg_tv", TRUE, TRUE), Remote("lg_tv", TRUE, FALSE), Remote("lg_tv", FALSE, TRUE),
            Remote("ac", TRUE, FALSE), [Remote("raw", TRUE, TRUE) EXCEPT !.ready = FALSE]}
Alike == Permutations(Calls)
=============================================================================
