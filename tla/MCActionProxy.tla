--------------------------- MODULE MCActionProxy ---------------------------
(* Instances of the proxy: one or two uploads, two activations.            *)
EXTENDS ActionProxy, TLC

CONSTANTS i1, i2, r1, r2

MCOneInit == {i1}
MCTwoInits == {i1, i2}
MCRuns == {r1, r2}
MCConfig(debugging, concurrency, managed) ==
    [debugging |-> debugging, concurrency |-> concurrency, managed |-> managed]
MCShared == {MCConfig(FALSE, 2, MCRuns)}
(* Two runs at once; one at a time, of either kind; one at a time in a     *)
(* container that is initialized again.                                    *)
MCAll == {MCConfig(FALSE, 2, MCRuns),
          MCConfig(FALSE, 1, {r1}), MCConfig(FALSE, 1, {r2}),
          MCConfig(TRUE, 1, {r1})}
============================================================================
