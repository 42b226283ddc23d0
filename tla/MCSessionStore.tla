--------------------------- MODULE MCSessionStore ---------------------------
(* SessionStore for TLC: the process that creates the session and one that *)
(* continues it.                                                           *)
EXTENDS SessionStore

CONSTANTS creator, other
MCProcs == {creator, other}
MCCreatorAlone == {creator}
MCKinds == {"message", "leaf", "twig"}
MCKindsNoLeaf == {"message", "twig"}
=============================================================================
