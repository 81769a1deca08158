------------------------------ MODULE EngineMC ------------------------------
(***************************************************************************)
(* Instances of Engine for TLC.                                            *)
(***************************************************************************)
EXTENDS Engine, TLC

CONSTANTS
    alice, bob,         \* accounts
    c1, c2, c3,         \* chat jobs
    img, ag, ari, sum,  \* an image job, an agent run, a proof, an arithmetic job
    w1, w2,             \* workers
    s1, s2, s3          \* connections

\* The first charges for which the double product c * 0.7 falls short.
MCEarnRoundsShort == {90, 170, 180}

MCKind == [j \in Job |->
    CASE j = img -> "image" [] j = ag -> "agent" [] j = ari -> "aristotle"
      [] j = sum -> "arithmetic" [] OTHER -> "chat"]
MCModel == [j \in Job |->
    CASE j = img -> "sdxl" [] j = ari -> "aristotle-verified"
      [] j = sum -> "aristotle-verified" [] OTHER -> "llama3.2"]
MCUser == [j \in Job |-> IF j \in {c2, ag} THEN bob ELSE alice]
MCServes == [w \in Worker |-> {"llama3.2", "sdxl"}]
MCPromptTokens == [j \in Job |-> 100]
MCMaxTokens == [j \in Job |-> DefaultMaxTokens]

\* Everybody can afford every job / alice can afford her chat and her proof but
\* not the arithmetic too while both are open, bob his chat or his agent run.
MCRich == [u \in {alice, bob} |-> 500]
MCPoor == [u \in {alice, bob} |-> IF u = alice THEN 104 ELSE 16]

MCTight == [u \in {alice, bob} |-> 4]

MCSymmetry == Permutations({s1, s2, s3})
=============================================================================
