---------------------------- MODULE MCGenerators ----------------------------
(* Bodies for Generators: every block around and inside every other one     *)
(* that can be suspended, and some that cannot.                            *)
EXTENDS Generators

D == Do("d")
Y(l) == Yield(l)

(* Without blocks. *)
Flat == {<<Y("a")>>, <<D, Y("a")>>, <<Y("a"), Y("b")>>, <<Y("a"), D>>}

(* In a loop over target t, ways to end an iteration included. *)
Turns(t) == {<<Y(t), Do(t)>>, <<Do(t), Y(t), Y("b")>>}
Leaves == {<<Y("x"), Break>>, <<Y("x"), Continue, D>>, <<D, Y("x"), Return>>,
           <<Y("x"), Raise>>}

Two == <<"p", "q">>

(* Loops, and loops in loops. *)
Loop(b) == {For("x", Two, b), While("w", 2, b)}
InLoop == Turns("x") \cup Leaves
    \cup {<<D, If(c, <<Y("a"), D>>, <<D, Y("b")>>), Do("e")>> : c \in BOOLEAN}
    \cup {<<If(TRUE, <<D>>, << >>), For("y", Two, b), D>> : b \in Turns("y") \cup {<<Y("y"), Break>>}}
    \cup {<<D, While("v", 4, <<Y("x"), D>>), Y("c")>>}
    \cup {<<If(TRUE, <<For("y", Two, <<Y("y"), Do("x")>>), Y("x")>>, << >>)>>}
LoopBodies == UNION {Loop(b) : b \in InLoop}

(* Generators that are delegated to or iterated over. *)
Sources == {<<Y("a"), D, Y("b")>>,
            <<For("z", Two, <<Y("z"), D>>)>>,
            <<Y("a"), Return>>, <<Y("a"), Fault>>, <<Fault>>,
            <<Try(<<Y("a"), Y("b")>>, "E", <<D>>, << >>, <<Do("f")>>), Y("c")>>,
            <<With("n", FALSE, <<Y("a"), Y("b")>>)>>}
Plain == {<<Y("a"), D, Y("b")>>, <<For("z", Two, <<Y("z"), D>>)>>, << >>, <<Y("a"), Raise>>}

Delegates == {YieldFrom(g) : g \in Sources \cup Plain} \cup {YieldEach(Two), YieldEach(<<"p">>)}
Iterates == {ForIn("x", g, b) : g \in Plain, b \in {<<Y("x"), D>>, <<Do("x"), Y("x"), Break>>}}

(* One block around statements b. *)
Handlers == {<<D>>, <<Do("h"), Y("h"), Do("i")>>, <<Y("h"), Reraise>>}
Trys(b) == {Try(b, "E", h, << >>, <<Do("f")>>) : h \in Handlers}
             \cup {Try(b, "GeneratorExit", <<D, Reraise>>, << >>, <<Do("f")>>),
                   Try(b, "any", <<Y("h")>>, <<Y("o"), D>>, << >>)}
Blocks(b) == Trys(b) \cup {With("m", s, b) : s \in BOOLEAN} \cup {If(TRUE, b, << >>)}

InBlock == {<<Y("a"), Raise>>, <<Y("a"), Return>>, <<Y("a"), Fault>>}
             \cup {<<st, D>> : st \in Delegates \cup Iterates}
             \cup UNION {{<<D, st>> : st \in Loop(b)} : b \in Turns("x") \cup Leaves}
             \cup {<<For("x", Two, <<D, For("y", Two, <<Y("y"), Do("x")>>)>>)>>}

Once == UNION {Blocks(b) : b \in Flat \cup InBlock}

(* Two blocks: `with' inside another block is not suspended, nor is any     *)
(* block but `if' inside a loop.                                           *)
Twice == UNION {Blocks(<<D, st, Y("l")>>) \cup {For("x", Two, <<st, Y("x")>>)} :
                  st \in UNION {Blocks(b) : b \in {<<D, Y("a")>>, <<Y("a"), Raise>>,
                                                   <<For("y", Two, <<Do("y"), Y("y")>>)>>}}}

(* Loops whose turns end inside a block: run into a buffer. *)
Eager == UNION {{For("x", Two, <<st, Do("x")>>) : st \in Blocks(b)} :
                  b \in {<<Y("x"), Continue>>, <<Y("x"), Break>>, <<Y("x"), Return>>}}

(* A finally that is reached with nothing to raise or return again. *)
Final == {Try(<<D>>, "any", << >>, << >>, <<Y("f"), D, Y("g")>>)}

MCBodies == {<<D, st, Y("c")>> : st \in Once \cup Twice \cup Eager \cup Final \cup LoopBodies
                                            \cup Delegates \cup Iterates}

=============================================================================
