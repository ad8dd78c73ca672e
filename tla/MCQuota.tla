------------------------------- MODULE MCQuota -------------------------------
(* A small instance of Quota for TLC: January to April, a free plan without  *)
(* video and a paid one with.                                                *)
EXTENDS Quota

Calendar == <<31, 28, 31, 30>>

TwoPlans ==
  [p \in {"free", "pro"} |->
     IF p = "free"
     THEN [MaxVerificationsPerMonth |-> 1, Grace |-> 0, OveragePriceCents |-> 0,
           MaxConcurrentAnalyses |-> 1, MaxFileSize |-> 1, MaxStorage |-> 1,
           MaxBatchUploadSize |-> 1, MaxFramesPerVideo |-> 0, AllowsVideoAnalysis |-> FALSE]
     ELSE [MaxVerificationsPerMonth |-> 1, Grace |-> 1, OveragePriceCents |-> 0,
           MaxConcurrentAnalyses |-> 2, MaxFileSize |-> 1, MaxStorage |-> 3,
           MaxBatchUploadSize |-> 0, MaxFramesPerVideo |-> 3, AllowsVideoAnalysis |-> TRUE]]

\* A single file and a batch.
Uploads == {<<"image">>, <<"image", "video">>}

\* This month; 1 February, all of February (compared with January), February and on.
AskedWindows == {<<NoDay, NoDay>>, <<32, 32>>, <<32, 59>>, <<32, NoDay>>}
=============================================================================
