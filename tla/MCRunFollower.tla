---------------------------- MODULE MCRunFollower ----------------------------
EXTENDS RunFollower, TLC
CONSTANTS EventsOfFirst, EventsOfLater
MCMaxEvents == [r \in 1..MaxRuns |-> IF r = 1 THEN EventsOfFirst ELSE EventsOfLater]
============================================================================
