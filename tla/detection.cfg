CONSTANTS
  cctv1 = cctv1  amr1 = amr1  z1 = z1  fire = fire
  Cctvs = {cctv1}
  AmrCams = {amr1}
  StatusStates = {fire}
  AnomalyClasses = {fire}
  HitThreshold = 2
  OffMissThreshold = 2
  HitWindow = 3
  HitRequired = 2
  AmbientOff = 2
  NoCamera = NoCamera
  NoZone = NoZone
  ZoneOf <- OneOfEach
  RestZones = {z1}
  SteadyCams = {cctv1}
  UiStart = {TRUE}
  InboundSize = 2
  MaxEvents = 2
SPECIFICATION Spec
INVARIANTS DetectionTypeOK OneReportPerEpisode DuplicatesAreReopened
PROPERTIES NoFalseAlarm SteadyIsAnEvent
