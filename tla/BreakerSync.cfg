SPECIFICATION FairSpec
CONSTANTS
 c1=c1 c2=c2 c3=c3
 Calls={c1,c2,c3} FailureThreshold=3 HalfOpenTrials=3 Asynchronous=FALSE
INVARIANTS TypeOK CountsAgree
PROPERTIES TripsOnStreak Recovers
