----------------------------- MODULE MCHotReload -----------------------------
(* A small instance of HotReload for TLC. *)
EXTENDS HotReload

Entry(k, v) == [key |-> k, value |-> v]

Defaults == [concurrency |-> 2, rate |-> 2, interval |-> 2]

\* A file that sets everything, one that is broken off in the middle, one
\* with a concurrency no semaphore takes, one that stops all deliveries.
Contents == {
    <<Entry("concurrency", 1), Entry("rate", 1), Entry("interval", 1)>>,
    <<Entry("rate", 3), Entry("concurrency", Bad), Entry("interval", 3)>>,
    <<Entry("concurrency", -1), Entry("rate", 4), Entry("interval", 4)>>,
    <<Entry("concurrency", 0)>>}
=============================================================================
