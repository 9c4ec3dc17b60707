--------------------------- MODULE MCPointLayout ---------------------------
(* Two functions, one right behind the other, the second one byte behind  *)
(* the end of the first, so that the jump of a block interposed in the    *)
(* first one has the second one's address.                                *)
EXTENDS PointLayout

I(size, kind, target) == [size |-> size, kind |-> kind, target |-> target]
Plain(size) == I(size, "plain", <<0, 0>>)
Ret == I(1, "ret", <<0, 0>>)
MCProgram ==
    <<[base |-> 100, blocks |-> <<<<Plain(4), I(2, "branch", <<1, 3>>)>>, <<I(5, "call", <<2, 1>>)>>, <<Ret>>>>],
      [base |-> 113, blocks |-> <<<<Plain(3), I(2, "branch", <<2, 1>>)>>, <<Ret>>>>]>>
\* A function pointer, something that is no address, and a jump table's entry
\* at the very end.
MCData == <<[target |-> <<"prog", 2, 1, 1>>, table |-> FALSE], [target |-> <<"zero", 0, 0, 0>>, table |-> FALSE],
            [target |-> <<"prog", 1, 3, 1>>, table |-> TRUE]>>

Call == <<"prog", 1, 2, 1>>
Branches == {x \in ProgIds : Instr(x).kind = "branch"}
Sources == ProgIds \cup {EdgeOf(x) : x \in Branches}
Shapes == {<<"inline", 3>>, <<"inline", 9>>, <<"tramp", 5>>}
P(src, loc, shape, priority) == [n |-> 0, src |-> src, loc |-> loc, mode |-> shape[1], bytes |-> shape[2], priority |-> priority]
Candidates ==
    {P(s, "prior", sh, pr) : s \in Sources, sh \in Shapes, pr \in 1 .. 2}
        \cup {P(s, "after", sh, 1) : s \in {Call, FirstOf(1, 1), FirstOf(2, 1)}, sh \in Shapes}
        \cup {P(Call, "replace", <<"tramp", 5>>, 1)}
\* The insertion order of equal points: the other order is another layout.
Number(q) == {[q[i] EXCEPT !.n = i] : i \in DOMAIN q}
Replacements(q) == {i \in DOMAIN q : q[i].loc = "replace"}
Possible(ps, es) ==
    /\ \A p \in ps : p.src[1] = "edge" => \E x \in es : EdgeOf(x) = p.src
    /\ Cardinality({p \in ps : p.loc = "replace"}) < 2
\* Two points anywhere, and three around one of three instructions.
Pairs == {Number(q) : q \in Candidates \X Candidates}
Crowded == {FirstOf(1, 1), Call, EdgeOf(LastOf(2, 1))}
Triples == {Number(<<P(s, "prior", a, 1), P(s, "prior", b, pr), c>>) :
               s \in Crowded, a \in Shapes, b \in Shapes, pr \in 1 .. 2,
               c \in {P(Call, "replace", <<"tramp", 5>>, 1)} \cup {P(FirstOf(1, 1), "after", sh, 1) : sh \in Shapes}
                        \cup {P(LastOf(1, 1), "prior", sh, 1) : sh \in Shapes}}
MCLayouts == {[points |-> ps, edges |-> es] : ps \in Pairs \cup Triples, es \in SUBSET Branches}
PossibleLayouts == {l \in MCLayouts : Possible(l.points, l.edges)}
=============================================================================
