---------------------------- MODULE MCPlayground ----------------------------
(* The playground with three requests and three pieces, one of each from   *)
(* the stored conversation, one edit, deletion or clearing, and two pages. *)
(* The second answer repeats itself and the others do not.                 *)
EXTENDS Playground

Answers == [p \in (1..MaxSends) \X (1..MaxPieces) |->
                IF p[1] = 2 \/ p[2] = 1 THEN <<"h", "a">> ELSE <<"o">>]
=============================================================================
