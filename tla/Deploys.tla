------------------------------ MODULE Deploys ------------------------------
(***************************************************************************)
(* Both deploy targets side by side.  They have the processes and the      *)
(* number of commands in common, and no state.                             *)
(***************************************************************************)
EXTENDS FlyDeploy

CONSTANTS
  Versions,   \* the directories `mar build` can leave, for Pages
  BatchSize   \* assets of one upload

VARIABLES source, dist, project, store, committed, deployments, pagesRuns, pagesProc

Pages == INSTANCE PagesDeploy WITH runs <- pagesRuns, proc <- pagesProc

pagesVars == <<source, dist, project, store, committed, deployments, pagesRuns, pagesProc>>

\* A deployment of Pages names only assets that are uploaded and committed, and
\* an undisturbed deploy publishes what it built (`PagesDeploy`).
DeploymentsServable == Pages!DeploymentsServable
=============================================================================
