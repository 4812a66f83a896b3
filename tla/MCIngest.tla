-------------------------------- MODULE MCIngest --------------------------------
EXTENDS Ingest, Sequences

Up(who, block, instance) == [who |-> who, block |-> block, instance |-> instance]

Plan(of, shared, images, uses, faults, most) ==
  [of |-> of, shared |-> shared, images |-> images, uses |-> uses, faults |-> faults,
   trouble |-> most]

\* b overlaps a by more than is allowed, c follows b, d is no longer than its
\* overlap with a, e began too early.
MCTimes ==
  [a |-> [from |-> 10, to |-> 20], b |-> [from |-> 18, to |-> 28],
   c |-> [from |-> 28, to |-> 38], d |-> [from |-> 19, to |-> 20],
   e |-> [from |-> 2, to |-> 6]]

MCPlans == {
  \* one block sent again and again, at two instances without a shared lock
  Plan(<<Up("m", "a", 1), Up("m", "a", 2), Up("m", "a", 2)>>, FALSE, 2,
       {"delete"}, {"store", "database", "crash"}, 1),
  \* blocks of two devices that overlap, at instances that share their locks
  Plan(<<Up("m", "a", 1), Up("m", "b", 2), Up("m", "c", 2), Up("m", "d", 1)>>, TRUE, 0,
       {"delete"}, {"database", "crash"}, 1),
  \* a retry, another member with the same id, and what ends a member's access
  Plan(<<Up("m", "a", 1), Up("m", "a", 2), Up("n", "a", 1), Up("m", "e", 1)>>, TRUE, 1,
       {"delete", "device", "project", "subscription", "archive"}, {"unheard"}, 1)}
================================================================================
