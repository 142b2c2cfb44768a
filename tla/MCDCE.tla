------------------------------- MODULE MCDCE -------------------------------
EXTENDS DCE, LoopTree, TLC
T(o, c, t) == [op |-> o, cond |-> c, to |-> t]
Ret == T("return", "x", NoBlock)

\* Programs of five blocks, the last one returns.
Family(bodies, last, t1, t2, t3, t4) ==
    {[body |-> bd @@ (5 :> last),
      term |-> (1 :> a @@ 2 :> b @@ 3 :> c @@ 4 :> d @@ 5 :> Ret)] :
        bd \in bodies, a \in t1, b \in t2, c \in t3, d \in t4}

\* Gotos and loops around observable and unused statements.
Loops == Family([1 .. 4 -> {"none", "out", "set"}], "use",
                {Plain, T("truebr", "x", 4)},
                {Plain, Goto(4), T("truebr", "x", 5)},
                {Plain, Goto(5), Goto(2)},
                {Plain, T("falsebr", "x", 2)})
\* Switches and constant conditions.
Constants == Family([1 .. 4 -> {"none", "use", "clr"}], "out",
                    {Plain, T("truebr", "true", 4), T("switch", "x", 3)},
                    {Plain, T("truebr", "x", 5)},
                    {Goto(5), T("switch", "x", 2), T("falsebr", "x", 3)},
                    {Plain, T("truebr", "true", 2), T("falsebr", "true", 3)})
\* Blocks that only jump, into each other and into themselves.
Jumps == Family({<<"out", "none", "none", "none">>}, "none",
                {Plain, Goto(4), T("truebr", "x", 4), T("truebr", "x", 3)},
                {Plain, T("truebr", "x", 4)} \cup {Goto(t) : t \in 2 .. 5},
                {Plain, T("truebr", "x", 2)} \cup {Goto(t) : t \in 2 .. 5},
                {Plain, T("truebr", "x", 2)} \cup {Goto(t) : t \in 2 .. 5})
\* Loops with several back edges, in and beside each other.
Nests == Family({<<"out", "out", "out", "out">>, <<"set", "none", "use", "none">>},
                "use",
                {Plain, T("truebr", "x", 3)},
                {Plain, Goto(4)} \cup {T("truebr", "x", t) : t \in 2 .. 5},
                {Plain} \cup {T("falsebr", "x", t) : t \in 2 .. 5},
                {Plain, Goto(2), Goto(3)} \cup {T("truebr", "x", t) : t \in 2 .. 4})
MCPrograms == Nests \cup Loops \cup Constants \cup Jumps

\* A block without effect that a goto passes over.
MCPassedOver == Family([1 .. 4 -> {"none", "out", "set"}], "none",
                       {T("truebr", "x", 3)}, {Goto(4)}, {Plain, Goto(2)}, {Plain})
=============================================================================
