--------------------------- MODULE MCProjectFiles ---------------------------
(* Small instances of the stores.                                          *)
EXTENDS ProjectFiles, TLC

CONSTANTS
  r1, r2, f1, f2, f3, v1, v2, srs, build, out, beyond, bot, e1, e2, e3, n1, n2, k1, k2

MCContents == f1 :> {v1, v2} @@ f2 :> {v1, NoFile} @@ f3 :> {v1}
MCStageOf == f1 :> srs @@ f2 :> build @@ f3 :> build
MCGiven == f1 :> {{}, {f3}} @@ f2 :> {{f1}} @@ f3 :> {{f2}}   \* may close to a cycle

MCTranscripts == {{out, beyond}}

MCKinds == bot :> {"npx", "binary"}

MCNameOf == e1 :> n1 @@ e2 :> n1 @@ e3 :> n2
MCPolicies == k1 :> "allow" @@ k2 :> "prompt"
MCPermissions == e1 :> <<k1>> @@ e2 :> <<>> @@ e3 :> <<k1, k2>>

MCPrices == {0 - 1, 2}

\* The dependencies of three artifacts, cycles among them; the second may need
\* one that is not registered.
CtxGraphs ==
  {g \in [1..3 -> SUBSET (1..4)] :
     g[1] \subseteq {2, 3} /\ (g[2] \subseteq {1, 3} \/ g[2] = {4}) /\ g[3] \subseteq {1}}

MCTokens == <<4, 8, 8>>
MCMenuCosts == <<1, 1, 2>>

\* A host without pip has no other fault.
MCInit == FilesInit /\ (pip <=> host # "outside")

\* A second lesson is made on the first day, and neither revived nor decayed, and
\* doctors overlap where they have no installation to repair.  No two listings of
\* traces stand at the same time.
MCNext ==
  /\ FilesNext
  /\ lsMade' > 1 => lsNow' = 0 /\ \A p \in Procs : lsProc'[p].op \notin {"revive", "decay"}
  /\ drOverlapped' => host = "inside" /\ pip
  /\ \A p, q \in Procs : reader'[p].at = "listed" /\ reader'[q].at = "listed" => p = q

MCSpec == MCInit /\ [][MCNext]_filesVars

\* No property tells processes apart.
Symmetry == Permutations(Procs)
=============================================================================
