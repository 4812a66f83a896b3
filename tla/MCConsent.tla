-------------------------------- MODULE MCConsent --------------------------------
EXTENDS Consent

Plan(choices, policies, uses, faults, most, blocks) ==
  [choices |-> choices, policies |-> policies, uses |-> uses, faults |-> faults,
   moves |-> most, blocks |-> blocks]

All == Capabilities
Blurred == All \ {"plain"}
Typing == {"keyboard"}

MCPlans == {
  \* mixed changes while screenshots are taken
  Plan({Revoked, Granted(All), Granted(Blurred), Granted(Typing)}, {All}, {}, {}, 4, 4),
  \* the workspace changes its mind as well
  Plan({Granted(All), Granted(Blurred), Granted({"screenshot", "plain"})}, {All, Blurred, Typing},
       {"pause"}, {}, 4, 3),
  \* saves that fail, crashes in between, choices made while the agent is down
  Plan({Revoked, Granted(All), Granted(Typing)}, {All}, {"crash", "offline"}, {"disk", "damage"}, 5, 4)}

MCRetry == {Plan({Revoked, Granted(All)}, {All}, {}, {"disk"}, 3, 2)}
================================================================================
