------------------------------ MODULE MCGetopt -------------------------------
(* Vectors of up to three arguments.  Of the letters, a and b are options, o  *)
(* takes an argument and x is unknown; of the names, f takes no argument, r   *)
(* requires one, p may have one and u is unknown.                             *)
EXTENDS Getopt

MCOptString == <<"a", "b", "o", ":">>
MCLongOpts  == [f |-> "no", r |-> "required", p |-> "optional"]
MCValues   == {Word}
Clusters   == {<<"a">>, <<"o">>, <<"x">>, <<"a", "b">>, <<"b", "o">>, <<"o", "a">>, <<"x", "a">>}
Tokens == {Word, Separator} \cup {Cluster(s) : s \in Clusters}
            \cup {Long(n, v) : n \in Names, v \in Values \cup {None}}
MCArgvs == UNION {[1 .. n -> Tokens] : n \in 0 .. 2}
             \cup [1 .. 3 -> {Word, Separator, Cluster(<<"a", "b">>), Cluster(<<"b", "o">>),
                              Long("r", None), Long("p", None)}]
==============================================================================
