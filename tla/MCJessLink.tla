------------------------------ MODULE MCJessLink ------------------------------
(* Names for the client links: one below a subscription, one beside it.      *)
EXTENDS JessLink

MCKeys == {<<"a", ".", "b">>, <<"a", "b">>}
MCSubs == {<<"a">>}
==============================================================================
