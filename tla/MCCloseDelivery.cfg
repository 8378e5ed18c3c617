SPECIFICATION DeliverySpec
CONSTANTS
  Jobs = {d1, d2, cj}
  d1 = d1
  d2 = d2
  NoJob = NoJob
  CloseJob = cj
  Funcs = {oc, a1}
  NoFunc = NoFunc
  OnClose = oc
  Packets <- ThePackets
  Readers = {r1, r2}
  Modes = {"et", "oneshot"}
  MinEvents <- TheMinEvents
INVARIANTS SingleRunner IndexInList CloseJobLast
PROPERTIES ConnSerial AsyncSerial CloseDelivered 
CHECK_DEADLOCK FALSE
