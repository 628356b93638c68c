------------------------------ MODULE MCTasks ------------------------------
(* Instances of TaskPolling for TLC. *)
EXTENDS TaskPolling, TLC

CONSTANTS t1, t2, u1, u2

OneVideo == [t \in {t1} |-> "video"]
ImageAndSuno == (t1 :> "image") @@ (t2 :> "suno")

Report(st, full, reason) == [status |-> st, full |-> full, reason |-> reason]
Answer == {Report("QUEUED", FALSE, FALSE), Report("SUCCESS", TRUE, FALSE),
           Report("FAILURE", TRUE, TRUE)}
SunoAnswer == Answer \cup {Report("QUEUED", FALSE, TRUE), Report("SUCCESS", TRUE, TRUE)}

Symmetry == Permutations(Users)
============================================================================
