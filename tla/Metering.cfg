SPECIFICATION FairSpec
CONSTANTS
 Requests={p1,p2} RateLimit=1 MonthlyQuota=1 Length<-Calendar
 MaxMinute=1 MaxRotations=2
INVARIANTS TypeOK LimitsRespected RefusalExplained DeadKeyRefused
 CountersExpire
PROPERTY DeadKeyForgotten
CHECK_DEADLOCK FALSE
