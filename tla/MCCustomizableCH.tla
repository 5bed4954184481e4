-------------------------- MODULE MCCustomizableCH --------------------------
EXTENDS CustomizableCHInv

Orders(n) == {o \in [1 .. n -> 0 .. n - 1] : \A i, j \in 1 .. n : i # j => o[i] # o[j]}
\* A ring with a loop, parallel arcs and a chord: all orders, one round of queries.
Ring == [n |-> 4, arcs |-> <<<<0, 1>>, <<1, 0>>, <<1, 2>>, <<2, 3>>, <<3, 0>>, <<0, 2>>, <<1, 2>>, <<1, 1>>>>,
         weights |-> {<<1, 2, 2, 1, 0, 4, 1, 0>>}, orders |-> Orders(4), ways |-> {"sweep", "witness"},
         starts |-> {}, pins |-> {}, sources |-> 0, rounds |-> 0]
\* A tree of one-way streets whose shape the filter thins out: all orders, several rounds and new weights.
OneWay == [n |-> 4, arcs |-> <<<<0, 1>>, <<0, 2>>, <<2, 3>>, <<3, 2>>>>,
           weights |-> {<<1, 2, 1, 0>>, <<1, 99, 1, 2>>}, orders |-> Orders(4), ways |-> {"sweep"},
           starts |-> {1}, pins |-> {<<3, 1>>}, sources |-> 1, rounds |-> 0]
\* Three nodes in a line: two leaves under a root, or an arc the order adds; every protocol.
Small == [n |-> 3, arcs |-> <<<<0, 1>>, <<1, 0>>, <<1, 2>>, <<2, 1>>, <<1, 2>>>>,
          weights |-> {<<1, 1, 2, 0, 1>>, <<2, 0, 0, 99, 1>>}, orders |-> {<<0, 2, 1>>, <<1, 0, 2>>},
          ways |-> {"partial", "sweep"}, starts |-> {0, 2}, pins |-> {<<2, 0>>, <<1, 1>>}, sources |-> 2, rounds |-> 1]
\* Weights that go up and down on several arcs: the partial customization.
Traffic == [n |-> 4, arcs |-> <<<<0, 1>>, <<1, 0>>, <<0, 2>>, <<2, 0>>, <<1, 3>>, <<3, 1>>, <<2, 3>>, <<0, 3>>>>,
            weights |-> {<<1, 1, 1, 1, 1, 1, 1, 4>>, <<5, 1, 1, 0, 1, 3, 1, 4>>, <<0, 1, 9, 1, 1, 1, 1, 1>>, <<1, 1, 1, 7, 99, 1, 1, 4>>},
            orders |-> Orders(4), ways |-> {"partial", "sweep"}, starts |-> {}, pins |-> {}, sources |-> 0, rounds |-> 0]
\* Two low nodes under one top arc: the threads meet there.  Then the weights change.
Diamond == [n |-> 5, arcs |-> <<<<0, 2>>, <<2, 0>>, <<0, 3>>, <<3, 0>>, <<1, 2>>, <<2, 1>>, <<1, 3>>, <<3, 1>>, <<2, 4>>, <<4, 3>>>>,
            weights |-> {<<1, 1, 1, 2, 0, 1, 1, 1, 1, 1>>, <<1, 1, 1, 2, 3, 1, 1, 1, 0, 1>>},
            orders |-> {<<0, 1, 2, 3, 4>>, <<0, 1, 4, 2, 3>>, <<2, 0, 1, 3, 4>>}, ways |-> {"parallel", "partial"}, starts |-> {}, pins |-> {}, sources |-> 0, rounds |-> 0]
\* The way between the two lowest nodes leads over the two highest: the perfect witness search.
Hill == [n |-> 4, arcs |-> <<<<0, 1>>, <<0, 2>>, <<2, 3>>, <<3, 1>>, <<2, 1>>, <<1, 0>>, <<3, 2>>>>,
         weights |-> {<<9, 1, 1, 1, 8, 0, 1>>}, orders |-> Orders(4), ways |-> {"sweep", "witness"},
         starts |-> {}, pins |-> {}, sources |-> 0, rounds |-> 0]
\* The filter thins out the arcs the perfect witness search would go over: a shortcut it keeps cannot be unpacked.
Valley == [n |-> 5, arcs |-> <<<<0, 1>>, <<0, 4>>, <<2, 0>>, <<3, 0>>, <<3, 1>>, <<4, 3>>>>,
           weights |-> {<<3, 1, 0, 3, 0, 0>>}, orders |-> {[i \in 1 .. 5 |-> i - 1]}, ways |-> {"witness"},
           starts |-> {}, pins |-> {}, sources |-> 0, rounds |-> 0]
MCInputs == {Ring, Hill, OneWay, Small, Traffic, Diamond, Valley}
ThreadSymmetry == Permutations(Threads)
=============================================================================
