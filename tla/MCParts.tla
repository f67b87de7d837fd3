------------------------------ MODULE MCParts ------------------------------
(***************************************************************************)
(* The components that share no state, side by side: one of them runs, the *)
(* others stay as they start, so that the state graph is the union of the  *)
(* components' graphs and one run checks them all.                         *)
(***************************************************************************)
EXTENDS OfflineSdk, FlushBuffer, Batching, MCRegWatch, WatchSchedule,
        PolicyDocs, MCPolicyEval

VARIABLE part       \* the component that runs

MCLinks == [dp |-> {"u1", "u2"}, ai |-> {"u3"}]

Parts == {"sdk", "buffer", "merkle", "batching", "watch", "schedule", "docs", "eval"}

MCInit ==
    /\ part \in Parts
    /\ SdkInit /\ BufInit /\ MerkleInit /\ BatchInit /\ WatchInit
    /\ ScheduleInit /\ DocsInit /\ EvalInit
    /\ part # "eval" => failMode = "deny_on_error" /\ policy = <<>>
    /\ part # "watch" => page.text = t1

MCVars == <<part, sdkVars, bufVars, leaves, batchVars, watchVars, scheduleVars,
            docsVars, evalVars>>

MCNext ==
    \/ /\ part = "sdk" /\ SdkNext
       /\ UNCHANGED <<part, bufVars, leaves, batchVars, watchVars,
                      scheduleVars, docsVars, evalVars>>
    \/ /\ part = "buffer" /\ BufNext
       /\ UNCHANGED <<part, sdkVars, leaves, batchVars, watchVars,
                      scheduleVars, docsVars, evalVars>>
    \/ /\ part = "merkle" /\ AddLeaf
       /\ UNCHANGED <<part, sdkVars, bufVars, batchVars, watchVars,
                      scheduleVars, docsVars, evalVars>>
    \/ /\ part = "batching" /\ BatchNext
       /\ UNCHANGED <<part, sdkVars, bufVars, leaves, watchVars,
                      scheduleVars, docsVars, evalVars>>
    \/ /\ part = "watch" /\ WatchNext
       /\ UNCHANGED <<part, sdkVars, bufVars, leaves, batchVars,
                      scheduleVars, docsVars, evalVars>>
    \/ /\ part = "schedule" /\ ScheduleNext
       /\ UNCHANGED <<part, sdkVars, bufVars, leaves, batchVars,
                      watchVars, docsVars, evalVars>>
    \/ /\ part = "docs" /\ DocsNext
       /\ UNCHANGED <<part, sdkVars, bufVars, leaves, batchVars,
                      watchVars, scheduleVars, evalVars>>
    \/ /\ part = "eval" /\ EvalNext
       /\ UNCHANGED <<part, sdkVars, bufVars, leaves, batchVars,
                      watchVars, scheduleVars, docsVars>>

\* The fairness of the component that runs.
MCFairness ==
    /\ \A c \in Clients : WF_sdkVars(part = "sdk" /\ ClientStep(c))
    /\ \A t \in Threads : WF_bufVars(part = "buffer" /\ Consume(t))
    /\ \A t \in Callers : /\ WF_bufVars(part = "buffer" /\ Close(t))
                          /\ WF_bufVars(part = "buffer" /\ Put(t))
    /\ \A j \in Jobs : WF_batchVars(part = "batching" /\ JobStep(j))
    /\ \A w \in Sweepers : WF_watchVars(part = "watch" /\ SweepStep(w))
    /\ \A h \in Humans : WF_watchVars(part = "watch" /\ RecordText(h))
    /\ WF_scheduleVars(part = "schedule" /\ RunStep(Cron))

MCSpec == MCInit /\ [][MCNext]_MCVars /\ MCFairness
=============================================================================
