----------------------------- MODULE StressTest -----------------------------
(***************************************************************************)
(* stress_test of src/test2.cpp, one round of its loops, over StreamHive:  *)
(* one large write, a flush, finish, and the comparison of what the sink   *)
(* received with what was written.                                         *)
(*                                                                         *)
(* finish() is declared and its definition is commented out (cpp:275); as  *)
(* written there it flushes and stops the hive, and so does the destructor *)
(* at the end of the round.  stop() joins the workers, so here a worker    *)
(* has the step with which get_task returns false and its loop ends.       *)
(***************************************************************************)
EXTENDS StreamHive

VARIABLES
  ended,    \* the workers whose loop has ended
  verdict   \* what the round has printed
testVars == <<ended, verdict>>

InitTest == InitStream /\ ended = {} /\ verdict = "none"
-----------------------------------------------------------------------------
(* os << big: one call of xsputn.  os.flush(): one of sync.                *)
Write == total = 0 /\ \E n \in WriteSizes : Xsputn(n)
Flush == total > 0 /\ Sync
InCall == FlushEnqueue \/ GetEmptyBuffer \/ PutRest \/ EnqueueRest

UseOnce ==
  /\ owner_pc = "stream"
  /\ Write \/ Flush \/ InCall
  /\ IF next_id' = next_id THEN UNCHANGED hiveVars
                           ELSE Hive!EnqueueTask(next_id' - next_id)

(* sbuf.finish().                                                          *)
Finish == total > 0 /\ Destroy

(* get_task returns false: past its wait, which ends when the queue has a  *)
(* task, it finds the queue empty, all under one hold of task_lock_.       *)
WaitIsOver == task_queue # <<>>
EndLoop(w) ==
  /\ worker_pc[w] = "get_task" /\ hand[w] = NoTask /\ w \notin ended
  /\ WaitIsOver /\ task_queue = <<>>
  /\ ended' = ended \cup {w}

(* stop() has joined the workers and the writer; result is compared.       *)
Compare ==
  /\ owner_pc = "join" /\ ended = Workers /\ writer_pc = "done"
  /\ verdict = "none"
  /\ verdict' = IF Sink = [i \in 1..total |-> i - 1] THEN "PASS" ELSE "Mismatch"

Main == \/ (UseOnce \/ Finish \/ InStop) /\ UNCHANGED testVars
        \/ Compare /\ UNCHANGED <<vars, hiveVars, ended>>
Bee(w) == \/ WorkerLoop(w) /\ UNCHANGED testVars
          \/ EndLoop(w) /\ UNCHANGED <<vars, hiveVars, verdict>>
Queen == WriterLoop /\ UNCHANGED testVars

TestNext == Main \/ Queen \/ \E w \in Workers : Bee(w)
allVars  == <<vars, hiveVars, testVars>>

(* Every thread that can run does.                                         *)
TestSpec ==
  /\ InitTest /\ [][TestNext]_allVars
  /\ WF_allVars(Main) /\ WF_allVars(Queen)
  /\ \A w \in Workers : WF_allVars(Bee(w))
-----------------------------------------------------------------------------
(* The round ends and finds the output equal to the input.  False even for *)
(* a write small enough to fit the result buffers: no worker's loop ever   *)
(* ends, so stop() never returns.                                          *)
RoundPasses == <>(verdict = "PASS")
=============================================================================
