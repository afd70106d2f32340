---------------------------- MODULE MCSourceEtl -----------------------------
(* The two ETLs run in containers of their own and fill tables of their own, *)
(* and the live reader shares nothing with them: a behaviour of one says     *)
(* nothing about the rows of the others.  In each behaviour here one of them *)
(* runs, so that TLC visits the sum of their states and not the product.     *)
EXTENDS ForumsEtl, GithubEtl, GithubLive

VARIABLE running

MCInit ==
  /\ ForumsInit /\ GithubInit /\ LiveInit
  /\ running \in {"forums", "github", "live"}
  /\ running # "forums" => listing = <<>>    \* one forum is enough when it is idle

MCNext ==
  /\ UNCHANGED running
  /\ \/ running = "forums" /\ ForumsNext /\ UNCHANGED <<githubVars, liveVars>>
     \/ running = "github" /\ GithubNext /\ UNCHANGED <<forumsVars, liveVars>>
     \/ running = "live" /\ LiveNext /\ UNCHANGED <<now, mirror, forumsVars, githubVars>>

MCSpec == MCInit /\ [][MCNext]_<<now, mirror, forumsVars, githubVars, liveVars, running>>

TopicSymmetry == Permutations(Topics)
=============================================================================
