SPECIFICATION FairSpec
CONSTANTS
  Workers = {}
  Clients = {c1, c2}
  Tasks = {t1, t2, t3}
  None = None
PROPERTIES RefinesFairService
