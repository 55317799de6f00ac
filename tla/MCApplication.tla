--------------------------- MODULE MCApplication ---------------------------
(***************************************************************************)
(* The programs of the run: one with a menu and no peers, for all that the *)
(* menu, New and the printing do to each other, and programs without a     *)
(* menu, for what peers do to Close.                                       *)
(***************************************************************************)
EXTENDS Application

MCPrograms ==
    [user : {"direct"}, menu : {TRUE}, log : BOOLEAN, stat : {"no", "first", "last"},
     prints : {TRUE}, peers : {{}}]
    \cup
    [user : {"direct", "net"}, menu : {FALSE}, log : {TRUE}, stat : {"no"},
     prints : {FALSE}, peers : {Addrs}]
    \cup
    [user : {"net"}, menu : {FALSE}, log : {TRUE}, stat : {"first"},
     prints : {TRUE}, peers : {{a} : a \in Addrs}]
=============================================================================
