----------------------------- MODULE MCWorkers ------------------------------
(* Two dispatch slots and the digest's one; a worker before them stands for *)
(* those index.ts starts first.  The digest's tick is forgotten as soon as  *)
(* it is completed, as an old one is when ten newer ones are.               *)
EXTENDS Workers
CONSTANTS d1, d2, t1, s1, s2, s3, e1, w1, w2
MCOrder == <<"digest", "webhook">>
MCKeep == [j \in Jobs |-> IF j = t1 THEN 0 ELSE 3]
MCWorkerOf == [s \in Slots |-> IF s = s3 THEN "digest" ELSE "webhook"]
MCQueueOf == [j \in Jobs |-> IF j = t1 THEN "digest" ELSE "webhook"]
MCEndpointOf == [j \in Jobs \ {t1} |-> e1]
=============================================================================
