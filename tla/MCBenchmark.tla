----------------------------- MODULE MCBenchmark ----------------------------
(* One benchmark while two invocations of the builder run, on a host with  *)
(* one card, or with a gfx906 and another.                                 *)
EXTENDS Benchmark

CONSTANTS old, new, prompt, decode
MCRoots == {old, new}
Card(s) == [name |-> "gfx906", size |-> s]
Other(s) == [name |-> "another", size |-> s]
MCHosts == {{Card("64")}, {Card("32")}, {Card("none")}, {Other("64")},
            {Card("64"), Other("32")}, {Card("none"), Other("32")},
            {Card("none"), Other("64")}, {Card("32"), Other("64")}}
MCMetrics == {prompt, decode}
=============================================================================
