----------------------------- MODULE MCWatching -----------------------------
EXTENDS Pipeline
MCStory == [i \in Items |-> CHOOSE j \in Items : TRUE]

MCFirstRun ==
    /\ day' = day /\ faults' = faults
    /\ urgent' = {} /\ Cardinality({i \in Items : raw'[i] # "absent"}) <= 1
MCNext == PipelineNext /\ (firstRun => MCFirstRun)
MCSpec == PipelineInit /\ [][MCNext]_pipelineVars /\ PipelineFairness
=============================================================================
