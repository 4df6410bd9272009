-------------------------- MODULE MCBrowserPairing --------------------------
(* BrowserPairing treats its chats alike.                                  *)
EXTENDS BrowserPairing, TLC

Symmetry == Permutations(Sites)
=============================================================================
