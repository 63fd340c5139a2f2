------------------------- MODULE MCBrowserSessions --------------------------
(***************************************************************************)
(* Two creations on the shared browser node.                               *)
(***************************************************************************)
EXTENDS BrowserSessions

OnOneNode == {[may |-> {"shared"}, ids |-> 2]}
=============================================================================
