----------------------------- MODULE MCCommand -----------------------------
(***************************************************************************)
(* Instances of Command for TLC, with the parsers of module Parsers.       *)
(***************************************************************************)
EXTENDS Command, Parsers

R(items, vl, num, locked) ==
  [items |-> items, vl |-> vl, num |-> num, locked |-> locked]
None == <<>>

E1 == [name |-> "a", attrs |-> [rwid |-> 1, bkid |-> 2, n_sites |-> 1],
       sites |-> <<Site("s1", "normal")>>]
E2 == [name |-> "b", attrs |-> [rwid |-> 3, n_sites |-> 2, locked |-> TRUE],
       sites |-> <<Site("s1", "normal"), Site("s2", "new")>>]
EV == [E1 EXCEPT !.name = ""]

Hdr(volid, status, attrs) == [volid |-> volid, status |-> status, attrs |-> attrs]
H1 == Hdr(1, "On-line", [place |-> "s1", time |-> 5])

Good ==
  {<<"listvldb", R(<<E1, E2>>, None, 2, 1)>>,
   <<"listvldb", R(None, None, 0, 0)>>,
   <<"examine", R(<<H1>>, <<EV>>, 0, 0)>>,
   <<"examine", R(<<Hdr(1, "busy", <<>>), Hdr(2, "error", <<>>)>>, None, 0, 0)>>,
   <<"listaddrs", R(<<[uuid |-> <<"u">>, addrs |-> <<"x", "y">>],
                      [uuid |-> <<"v">>, addrs |-> <<"z">>]>>, None, 0, 0)>>,
   <<"listaddrs", R(<<[uuid |-> None, addrs |-> <<"x">>],
                      [uuid |-> None, addrs |-> <<"y">>]>>, None, 0, 0)>>,
   <<"listacl", R(<< <<"normal", "ann">>, <<"normal", "bob">>,
                     <<"negative", "ann">> >>, None, 0, 0)>>,
   <<"membership", R(<<"g", "h">>, None, 0, 0)>>,
   <<"wscell", R(<<"cell">>, None, 0, 0)>>,
   <<"size", R(<<7>>, None, 0, 0)>>,
   <<"volheader", R(<<Hdr(0, "", [volid |-> 1, name |-> "a", size |-> 4])>>, None, 0, 0)>>,
   <<"symlinks", R(<< <<"/a", "b">>, <<"/c", "d">> >>, None, 0, 0)>>,
   <<"nop", R(None, None, 0, 0)>>}

Prog(cmd, lines, status, ok, wanted) ==
  {[cmd |-> cmd, lines |-> lines, newline |-> nl, code |-> status, ok |-> ok,
    wanted |-> wanted] : nl \in BOOLEAN}

\* What is printed for a result; the same without the line that the rest needs;
\* two cells; a volume whose server cannot be reached; and the bytes of a dump.
Programs ==
  UNION ({Prog(g[1], Listing(g[1], g[2]), 0, TRUE, g[2]) : g \in Good}
    \cup {Prog("listvldb", <<Line([rwid |-> 1])>>, 0, FALSE, None),
          Prog("listvldb", <<Line([site |-> Site("s1", "normal")])>>, 0, FALSE, None),
          Prog("examine", <<Line([place |-> "s1"])>>, 0, FALSE, None),
          Prog("examine", <<Line([header |-> [volid |-> 1, status |-> "odd"]])>>, 0, FALSE, None),
          Prog("examine", <<Line([n_sites |-> 1])>>, 0, FALSE, None),
          Prog("examine", <<Line([site |-> Site("s1", "normal")])>>, 0, FALSE, None),
          Prog("examine", <<Line([bare |-> "a"]), Line([rwid |-> 1])>>, 1, FALSE, None),
          Prog("listacl", <<Line([acl |-> "ann"])>>, 0, FALSE, None),
          Prog("wscell", <<Line([cell |-> "a"]), Line([cell |-> "b"])>>, 0, FALSE, None),
          Prog("size", <<Line([odd |-> 1])>>, 0, FALSE, None),
          Prog("symlinks", <<Line([target |-> "b"])>>, 0, FALSE, None),
          Prog("symlinks", <<Line([symlink |-> TRUE]), Line([path |-> "/a"])>>, 0, FALSE, None),
          Prog("symlinks", <<Line([symlink |-> TRUE]), Line([odd |-> "/a"])>>, 0, FALSE, None)}
    \cup {Prog("dump", [i \in 1 .. n |-> "data"], 0, TRUE, None) : n \in {0, 1, 3}})

=============================================================================
