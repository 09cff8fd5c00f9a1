---------------------------- MODULE MCStoreSync ----------------------------
(* Small instances of StoreSync for TLC. *)
EXTENDS StoreSync, TLC

MCKeys == SyncKeys
MCContents == Identities \cup {Nothing}

Symmetry == Permutations(Runs) \cup Permutations(SDLs)
=============================================================================
