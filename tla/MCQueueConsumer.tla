-------------------------- MODULE MCQueueConsumer --------------------------
EXTENDS QueueConsumer, TLC

CONSTANTS c1, c2, artifact, job1, job2

MCConsumers == {c1, c2}
MCEntities == {artifact}
\* The consumers differ in nothing.
ConsumerSymmetry == Permutations(MCConsumers)
MCJobs == {job1, job2}
MCKeys == {"publish:1", "publish:2", "withdraw:1", "Withdraw:1"}

Publish(version, lineage) ==
  [key |-> IF version = 1 THEN "publish:1" ELSE "publish:2", entity |-> artifact, kind |-> "normal",
   lineage |-> lineage, expects |-> version, withdrawal |-> 0]
WithdrawAt(version) ==
  [key |-> IF version = 0 THEN "Withdraw:1" ELSE "withdraw:1", entity |-> artifact, kind |-> "withdraw",
   lineage |-> 0, expects |-> 0, withdrawal |-> version]

MCRequests == {Publish(1, 0), Publish(1, 1), Publish(2, 0), WithdrawAt(0), WithdrawAt(1)}

Of(request, job, attempt) == [request |-> request, job |-> job, attempt |-> attempt]

\* A publication, its retry, the same publication enqueued twice, and replayed
\* under another correlation id; a publication of the next source version; a
\* withdrawal, and one whose key the consumer refuses after its effect.
MCMessages ==
  { Of(Publish(1, 0), job1, 0), Of(Publish(1, 0), job1, 1), Of(Publish(1, 0), job2, 1),
    Of(Publish(1, 1), job2, 0), Of(Publish(2, 0), job1, 0), Of(WithdrawAt(0), job1, 0),
    Of(WithdrawAt(1), job1, 0) }
=============================================================================
