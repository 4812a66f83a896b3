-------------------------------- MODULE MCTokens --------------------------------
EXTENDS Tokens

Plan(uses, faults, blocks, most) ==
  [uses |-> uses, faults |-> faults, blocks |-> blocks, trouble |-> most]

MCPlans == {
  Plan({}, {"denied", "ended"}, 0, 1),                   \* two clients, one token
  Plan({"restart"}, {"denied", "lost"}, 0, 2),           \* rotations, saved or not
  Plan({"signOut", "switch"}, {"deviceRevoked"}, 0, 1),  \* signing out and in
  Plan({"switch", "restart"}, {"deviceRevoked"}, 0, 2),  \* revoked and taken back
  Plan({"restart"}, {"keyring"}, 3, 2),                  \* blocks without a key
  Plan({"purge", "restart"}, {"keyring"}, 1, 2)}         \* discarded, waiting or not

MCOvertaken == {Plan({"signOut"}, {"overtaken"}, 0, 0)}
================================================================================
