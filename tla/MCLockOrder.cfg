SPECIFICATION FairSpec
CONSTANTS
  Txns = {t1, t2, t3}
  Routes = {"decide", "fms_return", "mark_paid", "submit", "resubmit", "edit", "liquidate", "settle", "overdue"}
  NoRoute = NoRoute

  
PROPERTIES
  EveryRequestEnds
