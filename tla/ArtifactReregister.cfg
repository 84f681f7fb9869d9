SPECIFICATION Spec
CONSTANTS
  p1 = p1
  p2 = p2
  p3 = p3
  v1 = v1
  v2 = v2
  srs = srs
  build = build
  Paths = {p1, p2, p3}
  Contents <- MCContents
  Absent = Absent
  StageOf <- MCStageOf
  Given <- MCGiven
  Stages = {srs, build}
  TicketIds = {t1}
PROPERTY ChangesMarkDownstream
CHECK_DEADLOCK FALSE
