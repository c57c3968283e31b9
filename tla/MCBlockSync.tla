---------------------------- MODULE MCBlockSync ----------------------------
(* Small header trees for BlockSync.                                        *)
EXTENDS BlockSync

MCGenesis == 1
MCNoHash == 0
MCHash == 1 .. 5

(* The trees of five blocks whose main chain can go back to a branch it left: *)
(* branches of one and three blocks, of two and two, a fork above a fork, and *)
(* ties at the top.                                                           *)
Trees == {<<0, 1, 2, 3, 1>>, <<0, 1, 1, 3, 2>>, <<0, 1, 2, 1, 4>>, <<0, 1, 1, 3, 3>>, <<0, 1, 2, 3, 3>>}

(* Their blocks arrive in every order, with one restart; and a chain of four  *)
(* has a restart and two crashes.                                             *)
MCWorlds ==
    [tree : Trees, blocks : {MCHash}, inOrder : {FALSE}, stops : {1}, crashes : {0}]
    \cup [tree : {[x \in MCHash |-> x - 1]}, blocks : {1..4}, inOrder : {TRUE}, stops : {1}, crashes : {2}]
=============================================================================
