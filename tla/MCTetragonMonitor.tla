------------------------- MODULE MCTetragonMonitor -------------------------
(* Two paths, one of them in either argument of an event. *)
EXTENDS TetragonMonitor

CONSTANTS i1, c1, c2

MCEvent == {"token", Unknown}
MCRawEvents == {[file |-> "token", string |-> None], [file |-> None, string |-> "token"],
                [file |-> None, string |-> None]}
=============================================================================
