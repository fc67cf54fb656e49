------------------------------ MODULE MCNvram ------------------------------
(* A small image for model checking: an ordinary and an SDRAM variable in   *)
(* one bucket, an SDRAM variable in another, and an area that has no room   *)
(* for the long values of all of them.                                      *)
EXTENDS Nvram, TLC

MCSdram == {"init", "ncdl"}
MCName == MCSdram \union {"a"}
MCValue == {"v", "w"}
MCBucket == [n \in MCName |-> CASE n = "init" -> 2 [] OTHER -> 1]
MCSize == [t \in MCName \X MCValue |-> IF t[2] = "v" THEN 3 ELSE 7]

SetOp(n, v) == [op |-> "set", name |-> n, value |-> v]
UnsetOp(n) == [op |-> "unset", name |-> n, value |-> "v"]
GetOp(n) == [op |-> "get", name |-> n, value |-> "v"]
Cmd(w, ops, c) == [write |-> w, ops |-> ops, commit |-> c]

FactoryImage(h, ts) ==
    [magic |-> TRUE, len |-> Length(ts), hdr |-> h, data |-> ts, ended |-> TRUE]
MCFactory ==
    {FactoryImage([n \in MCSdram |-> "w"], <<>>),
     FactoryImage([n \in MCSdram |-> "v"],
                  <<[name |-> "a", value |-> "v"]>>)}
MCCommand == {Cmd(TRUE, <<SetOp("a", "w"), SetOp("ncdl", "w")>>, FALSE),
              Cmd(TRUE, <<UnsetOp("a"), UnsetOp("init"), GetOp("a")>>, TRUE),
              Cmd(FALSE, <<GetOp("a")>>, FALSE),
              Cmd(FALSE, <<GetOp("a")>>, TRUE)}
Symmetry == Permutations(Proc)
============================================================================
