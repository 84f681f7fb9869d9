-------------------------- MODULE MCKernelAdapters --------------------------
\* Small instances of the adapters.
EXTENDS KernelAdapters, SequencesExt, TLC

CONSTANTS t1, a1, a2, s1, s2, c1, c2, c3

MCOwner == a1 :> t1 @@ a2 :> t1

MCOcOwner == c1 :> s1 @@ c2 :> s2 @@ c3 :> s1

\* The bridge uses the persona's id: two spawns of a persona share it.
MCAggregate == s1 :> s1 @@ s2 :> s1

\* MockAdapter.spawn_agent: half of its output, its proposals, the other half.
Mock(thoughts, texts, proposals, fails, hangs) ==
  LET Times(n, kinds) == FlattenSeq([i \in 1..n |-> kinds])
  IN  <<"session">> \o
        IF hangs THEN <<"hang">>
        ELSE Times(thoughts, <<"thinking">>) \o
               IF fails THEN <<"failed">>
               ELSE Times(texts, <<"text">>) \o Times(proposals, <<"proposal", "text">>)
                      \o Times(texts, <<"text">>) \o <<"completed">>

\* A mock kernel and one like the real ones, which may raise, hang or fail.
MCScripts ==
  << {Mock(0, 1, 1, FALSE, FALSE), Mock(1, 1, 0, TRUE, FALSE)},
     {<<"session", "proposal", "text", "raise">>, <<"session", "proposal", "text">>,
      Mock(0, 0, 0, FALSE, TRUE)} >>

MCPlans == {[tasks |-> 2, repeats |-> 1], [tasks |-> 1, repeats |-> 2]}
=============================================================================
