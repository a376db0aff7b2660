---------------------------- MODULE MCDashboard ----------------------------
EXTENDS Dashboard

MCOwner == [s \in SessionIds |-> IF s = "s2" THEN "bob" ELSE "ana"]
MCSdkToken == [s \in SessionIds |-> IF s = "s1" THEN 1 ELSE 0]
MCUrls == {List(All, 2), Player("s1"), Share(1)}

============================================================================
