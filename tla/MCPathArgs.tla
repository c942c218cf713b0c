----------------------------- MODULE MCPathArgs -----------------------------
(* Instantiates PathArgs for TLC: command lines of up to three of the      *)
(* arguments below over a small tree holding a nested directory, a file    *)
(* beside it, a file at the top, and a directory that is readable in one   *)
(* tree and unreadable in the other.                                       *)
EXTENDS PathArgs, TLC

CONSTANT Blank_

MCBlank == Blank_

Rp(cs) == [abs |-> FALSE, c |-> cs]
Ap(cs) == [abs |-> TRUE, c |-> cs]

MCCompOrder == <<"a", "b", "c", "p", "x", "y">>

MCTree ==
    (<<>> :> "dir") @@ (<<"a">> :> "dir") @@ (<<"a", "b">> :> "dir")
    @@ (<<"a", "b", "y">> :> "file") @@ (<<"a", "x">> :> "file")
    @@ (<<"x">> :> "file") @@ (<<"b", "y">> :> "file")

MCFS == (<<"b">> :> "dir") @@ MCTree

\* The same tree with b/ not readable (mode 0300, say).
MCFSUnreadable == (<<"b">> :> "unreadable") @@ MCTree

MCLists ==
    "L" :> <<Rp(<<"a", "b", "y">>), Blank_, Rp(<<"a", ".", "x">>)>>

MCArgs ==
    { [flag |-> "C", v |-> Rp(<<"a">>)], [flag |-> "C", v |-> Rp(<<>>)],
      [flag |-> "P", v |-> Rp(<<"p">>)],
      [flag |-> "f", v |-> Rp(<<"x">>)], [flag |-> "f", v |-> Rp(<<"a", ".", "x">>)],
      [flag |-> "f", v |-> Ap(<<"x">>)], [flag |-> "f", v |-> Rp(<<"a">>)],
      [flag |-> "l", v |-> "L"], [flag |-> "l", v |-> "M"],
      [flag |-> "D", v |-> Rp(<<"a">>)], [flag |-> "D", v |-> Rp(<<>>)],
      [flag |-> "D", v |-> Rp(<<"c">>)],
      [flag |-> "s", v |-> Rp(<<"x">>)], [flag |-> "s", v |-> Rp(<<"p", "x">>)] }

MCArgv == BoundedSeq(MCArgs, 3)

====
