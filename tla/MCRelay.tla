------------------------------- MODULE MCRelay ------------------------------
(* Small instances of Relay for TLC: every client of up to three lines and *)
(* every server of up to two header lines, with or without a blank line,   *)
(* and with up to two bytes after it.                                      *)
EXTENDS Relay

ClientLines == BoundedSeq({Drop, Other}, 2)
MCClientInput == ClientLines \cup {Append(s, Blank) : s \in ClientLines}

ServerLines ==
    BoundedSeq({Other, NoSpace} \cup {ContentLength(n) : n \in -1 .. 3}, 2)
Bodies == {[i \in 1 .. n |-> Byte(i)] : n \in 0 .. 2}
MCServerInput ==
    ServerLines \cup {Append(s, Blank) \o b : s \in ServerLines, b \in Bodies}

=============================================================================
