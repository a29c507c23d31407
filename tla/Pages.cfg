SPECIFICATION MCSpec
INVARIANTS LossTold TreeSound PageKept RobotsObeyed
CHECK_DEADLOCK FALSE
