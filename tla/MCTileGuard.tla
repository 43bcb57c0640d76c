---------------------------- MODULE MCTileGuard ----------------------------
(* Tiles of two rows, two k steps of one half of K = 12288 each, int4         *)
(* groups of one step, two attempts per block. The elements of a tile take   *)
(* the extremes 127 * 127 * 12288 and its negative, and values between.       *)
EXTENDS TileGuard, TLC

MCTerm == [r \in 0..6 |-> [n \in 0..11 |-> [k \in 0..1 |->
             IF (r + n) % 3 = 0 THEN MaxTerm
             ELSE IF (r + n) % 3 = 1 THEN -MaxTerm ELSE r * 100 + n * 10 + k + 1]]]
MCScale == [g \in 0..1 |-> g + 2]

\* A full block, full blocks and a tail in one tile, a tail in two, and two panels.
MCCalls == {[q4 |-> q, m |-> s[1], n0 |-> s[2], n1 |-> s[3], panel |-> 4] :
              q \in BOOLEAN, s \in {<<5, 0, 4>>, <<3, 4, 8>>, <<1, 4, 12>>}}

MCHosts == {[amx |-> TRUE, grants |-> TRUE, vnni |-> TRUE, preserves |-> p] : p \in BOOLEAN}
           \cup {[amx |-> TRUE, grants |-> FALSE, vnni |-> TRUE, preserves |-> TRUE],
                 [amx |-> FALSE, grants |-> FALSE, vnni |-> TRUE, preserves |-> TRUE],
                 [amx |-> FALSE, grants |-> FALSE, vnni |-> FALSE, preserves |-> TRUE]}
MCEnvs == {[backend |-> e[1], guard |-> e[2], noGuard |-> FALSE] :
             e \in {<<"auto", "unset">>, <<"auto", "off">>, <<"vnni", "unset">>, <<"amx", "on">>,
                    <<"amx", "unset">>}}
============================================================================
