----------------------------- MODULE MCExtHost -----------------------------
(***************************************************************************)
(* Scenes for ExtHost: two extensions whose handshakes race, a gate that   *)
(* asks both, and one extension with everything else.                      *)
(***************************************************************************)
EXTENDS ExtHost

CONSTANTS r1, r2

Scene(exts, reqs, does, stim) == [exts |-> exts, reqs |-> reqs, does |-> does, stimuli |-> stim]

MCReqs == {r1, r2}

MCScenes == {Scene(2, {}, {}, 2), Scene(2, {r1}, {}, 1), Scene(2, {}, {"close"}, 1),
             Scene(1, {}, {"bind", "drain"}, 3), Scene(1, {}, {"bind", "close"}, 2),
             Scene(1, {r1}, {"close"}, 2), Scene(1, {r1, r2}, {}, 2)}
=============================================================================
