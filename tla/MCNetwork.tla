----------------------------- MODULE MCNetwork -----------------------------
(***************************************************************************)
(* The instance of Network that TLC checks: short messages of two symbols, *)
(* a buffer and a connection of two bytes, requests with one header or     *)
(* none, all targets of up to five characters.                             *)
(***************************************************************************)
EXTENDS Network

MCMessage == SeqOf({"a", NL}, 4)
MCVerb == {"GET file", "GET empty", "GET missing", "GET directory", "GET cgi", "POST"}
MCRequest == {<<r, NL, NL>> : r \in MCVerb} \cup {<<r, NL, "h", NL, NL>> : r \in MCVerb}
MCTarget == SeqOf({COLON, SLASH, "a"}, 5) \ {<<>>}

=============================================================================
